---- MODULE Spec2Model ----
(***************************************************************************)
(* State-machine model of the interview assistant: the transcript turn     *)
(* aggregator and the capture of useStreamingTranscription.js, the         *)
(* evaluation scheduler, question reconciliation and final evaluation of   *)
(* the Interview component (Interview.jsx), the home screen and recovery   *)
(* of the App (App.jsx), and the evaluation endpoints of the server        *)
(* (routes/evaluate.js).                                                   *)
(*                                                                         *)
(* Specifications:                                                         *)
(*   Spec        one mounted Interview of a live session                   *)
(*   SpecPerm    a script of Turn messages delivered in any order          *)
(*   SpecRecon   a connected session with long question lists and the      *)
(*               turn texts that separate the cases of the heuristic       *)
(*   SpecReport  the App from its home screen: sessions, end of interview, *)
(*               report, recovery, reload, passing of time                 *)
(*   SpecServer  the final-evaluation endpoint of the server               *)
(*   SpecCapture one mounted Interview with every audio source and every   *)
(*               failure of start()                                        *)
(*   SpecAudio   the chunks of the audio worklets and their hand-off to    *)
(*               the socket                                                *)
(*   SpecScoring both evaluation endpoints of the server and the output of *)
(*               the scoring backend                                       *)
(*   SpecStorage one mounted Interview with a localStorage that can be     *)
(*               full                                                      *)
(*                                                                         *)
(* Strings are sequences of one-character strings, so that length,         *)
(* trimming, lower-casing, joining and substring search are computed the   *)
(* way the JavaScript code computes them.                                  *)
(***************************************************************************)
EXTENDS Integers, Sequences, FiniteSets, TLC

NULL == "null"

(***************************************************************************)
(* Bounds of the model                                                     *)
(***************************************************************************)
\* number of distinct turn_order values of a script of Turn messages (SpecPerm)
NumPermOrders == 3
\* number of Turn messages of a script (SpecPerm)
MaxScript == 4
\* number of sockets (calls of start() that reach new WebSocket) per session
MaxSockets == 2
\* number of partial-evaluation requests issued per session
MaxRequests == 2
\* number of times the Interview component is mounted (SpecReport)
MaxMounts == 3
\* number of retention windows that elapse (SpecReport)
MaxDays == 1
\* number of characters by which a transcript exceeds the limit (SpecServer)
MaxExcess == 2
\* number of chunks the audio worklets post (SpecAudio)
MaxChunks == 26
\* number of symbols of a JSON payload of the scoring backend (SpecScoring)
MaxPayload == 5

(***************************************************************************)
(* Program constants                                                       *)
(***************************************************************************)
MIN_TRANSCRIPT_FOR_QUESTIONS == 60
MaxPresented == 10
MinHeuristicTranscript == 30
ShortQuestionLen == 15
PrefixLen == 40
MinMatchCount == 3
\* the retention window of the saved snapshot: 24 * 60 * 60 * 1000 milliseconds
PendingMaxAgeMs == 86400000
MAX_TRANSCRIPT_CHARS == 36000
SAMPLE_RATE == 16000
CHUNK_MS == 100
\* the length of channelData in AudioProcessor.process: one render quantum
RenderQuantum == 128

(***************************************************************************)
(* Inputs: turn orders (sparse, not contiguous), turn texts, questions     *)
(***************************************************************************)
OrderValues == <<2, 10, 0, 7, 5>>
\* the order of the Turn messages of a session (Spec), of a script (SpecPerm)
Orders == {OrderValues[1]}
PermOrders == {OrderValues[i] : i \in 1..NumPermOrders}

\* "So tell me about a time when you missed your quota target." (58 characters)
TextAsk ==
    <<"S","o"," ","t","e","l","l"," ","m","e"," ","a",
      "b","o","u","t"," ","a"," ","t","i","m","e"," ",
      "w","h","e","n"," ","y","o","u"," ","m","i","s",
      "s","e","d"," ","y","o","u","r"," ","q","u","o",
      "t","a"," ","t","a","r","g","e","t",".">>

\* "I spent six years building enterprise pipelines across two regional offices" (75 characters)
TextLong ==
    <<"I"," ","s","p","e","n","t"," ","s","i","x"," ",
      "y","e","a","r","s"," ","b","u","i","l","d","i",
      "n","g"," ","e","n","t","e","r","p","r","i","s",
      "e"," ","p","i","p","e","l","i","n","e","s"," ",
      "a","c","r","o","s","s"," ","t","w","o"," ","r",
      "e","g","i","o","n","a","l"," ","o","f","f","i",
      "c","e","s">>

\* "ok" (2 characters)
TextShort ==
    <<"o","k">>

\* "Tell me about a time you missed a quota?" (40 characters)
Question1 ==
    <<"T","e","l","l"," ","m","e"," ","a","b","o","u",
      "t"," ","a"," ","t","i","m","e"," ","y","o","u",
      " ","m","i","s","s","e","d"," ","a"," ","q","u",
      "o","t","a","?">>

\* "Why sales?" (10 characters)
Question2 ==
    <<"W","h","y"," ","s","a","l","e","s","?">>

\* "so why sales" (12 characters)
TextTiny ==
    <<"s","o"," ","w","h","y"," ","s","a","l","e","s">>

\* "Okay so why sales and not marketing" (35 characters)
TextWhy ==
    <<"O","k","a","y"," ","s","o"," ","w","h","y"," ",
      "s","a","l","e","s"," ","a","n","d"," ","n","o",
      "t"," ","m","a","r","k","e","t","i","n","g">>

\* "Describe six years building revenue forecasts hiring plans vendor decks?" (72 characters)
QuestionWide ==
    <<"D","e","s","c","r","i","b","e"," ","s","i","x",
      " ","y","e","a","r","s"," ","b","u","i","l","d",
      "i","n","g"," ","r","e","v","e","n","u","e"," ",
      "f","o","r","e","c","a","s","t","s"," ","h","i",
      "r","i","n","g"," ","p","l","a","n","s"," ","v",
      "e","n","d","o","r"," ","d","e","c","k","s","?">>

\* "Which enterprise pipelines drove growth overall?" (48 characters)
QuestionFew ==
    <<"W","h","i","c","h"," ","e","n","t","e","r","p",
      "r","i","s","e"," ","p","i","p","e","l","i","n",
      "e","s"," ","d","r","o","v","e"," ","g","r","o",
      "w","t","h"," ","o","v","e","r","a","l","l","?">>

\* "Is it regional offices?" (23 characters)
QuestionPair ==
    <<"I","s"," ","i","t"," ","r","e","g","i","o","n",
      "a","l"," ","o","f","f","i","c","e","s","?">>

\* "What is your quota?" (19 characters)
QuestionOne ==
    <<"W","h","a","t"," ","i","s"," ","y","o","u","r",
      " ","q","u","o","t","a","?">>

\* "What would you do for me?" (25 characters)
QuestionNone ==
    <<"W","h","a","t"," ","w","o","u","l","d"," ","y",
      "o","u"," ","d","o"," ","f","o","r"," ","m","e",
      "?">>

\* "Right, why? Sales is what I love doing" (38 characters)
TextDot ==
    <<"R","i","g","h","t",","," ","w","h","y","?"," ",
      "S","a","l","e","s"," ","i","s"," ","w","h","a",
      "t"," ","I"," ","l","o","v","e"," ","d","o","i",
      "n","g">>

\* texts of the Turn messages of SpecRecon
ReconTexts == {TextTiny, TextWhy, TextDot, TextAsk, TextLong}

\* questions of the lists of SpecRecon
ReconQuestions ==
    {Question1, Question2, QuestionWide, QuestionFew, QuestionPair, QuestionOne, QuestionNone}

\* texts of the Turn messages of a session, and of a permutation script
Texts == {TextAsk, TextLong}

PermTexts == {TextAsk, TextLong, TextShort}

Questions == {Question1, Question2}

stopWords ==
    {<<"t","h","e">>,
     <<"a">>,
     <<"a","n">>,
     <<"a","n","d">>,
     <<"o","r">>,
     <<"b","u","t">>,
     <<"i","n">>,
     <<"o","n">>,
     <<"a","t">>,
     <<"t","o">>,
     <<"f","o","r">>,
     <<"o","f">>,
     <<"w","i","t","h">>,
     <<"b","y">>,
     <<"f","r","o","m">>,
     <<"a","s">>,
     <<"i","s">>,
     <<"w","a","s">>,
     <<"a","r","e">>,
     <<"w","e","r","e">>,
     <<"b","e","e","n">>,
     <<"b","e">>,
     <<"h","a","v","e">>,
     <<"h","a","s">>,
     <<"h","a","d">>,
     <<"d","o">>,
     <<"d","o","e","s">>,
     <<"d","i","d">>,
     <<"w","i","l","l">>,
     <<"w","o","u","l","d">>,
     <<"c","o","u","l","d">>,
     <<"s","h","o","u","l","d">>,
     <<"m","a","y">>,
     <<"m","i","g","h","t">>,
     <<"m","u","s","t">>,
     <<"c","a","n">>,
     <<"y","o","u">>,
     <<"y","o","u","r">>,
     <<"m","e">>,
     <<"m","y">>,
     <<"w","e">>,
     <<"o","u","r">>,
     <<"t","h","e","y">>,
     <<"t","h","e","i","r">>,
     <<"i","t">>,
     <<"i","t","s">>,
     <<"t","h","i","s">>,
     <<"t","h","a","t">>,
     <<"w","h","a","t">>,
     <<"w","h","i","c","h">>,
     <<"w","h","o">>,
     <<"h","o","w">>,
     <<"w","h","e","n">>,
     <<"w","h","e","r","e">>,
     <<"w","h","y">>}

UpperToLower ==
    [c \in {"A","B","C","D","E","F","G","H","I","J","K","L","M","N","O","P","Q","R","S","T","U","V","W","X","Y","Z"} |->
       CASE c = "A" -> "a"
         [] c = "B" -> "b"
         [] c = "C" -> "c"
         [] c = "D" -> "d"
         [] c = "E" -> "e"
         [] c = "F" -> "f"
         [] c = "G" -> "g"
         [] c = "H" -> "h"
         [] c = "I" -> "i"
         [] c = "J" -> "j"
         [] c = "K" -> "k"
         [] c = "L" -> "l"
         [] c = "M" -> "m"
         [] c = "N" -> "n"
         [] c = "O" -> "o"
         [] c = "P" -> "p"
         [] c = "Q" -> "q"
         [] c = "R" -> "r"
         [] c = "S" -> "s"
         [] c = "T" -> "t"
         [] c = "U" -> "u"
         [] c = "V" -> "v"
         [] c = "W" -> "w"
         [] c = "X" -> "x"
         [] c = "Y" -> "y"
         [] c = "Z" -> "z"]

(***************************************************************************)
(* String primitives of JavaScript used by the code                        *)
(***************************************************************************)
IsSpace(c) == c = " "

\* String.prototype.trim
RECURSIVE TrimLeft(_)
TrimLeft(s) ==
    IF s # <<>> /\ IsSpace(Head(s)) THEN TrimLeft(Tail(s)) ELSE s

RECURSIVE TrimRight(_)
TrimRight(s) ==
    IF s # <<>> /\ IsSpace(s[Len(s)]) THEN TrimRight(SubSeq(s, 1, Len(s) - 1)) ELSE s

Trim(s) == TrimRight(TrimLeft(s))

\* String.prototype.toLowerCase
ToLowerCase(s) ==
    [i \in 1..Len(s) |-> IF s[i] \in DOMAIN UpperToLower THEN UpperToLower[s[i]] ELSE s[i]]

\* String.prototype.replace(/[?!.]/g, '')
StripPunctuation(s) == SelectSeq(s, LAMBDA c : c \notin {"?", "!", "."})

\* String.prototype.includes
Includes(t, w) ==
    \E i \in 0..(Len(t) - Len(w)) : \A j \in 1..Len(w) : t[i + j] = w[j]

\* String.prototype.slice(0, n)
Slice(s, n) == SubSeq(s, 1, IF Len(s) < n THEN Len(s) ELSE n)

\* String.prototype.split(/\s+/) of a trimmed string: the maximal runs of
\* non-space characters, in order
RECURSIVE SplitWords(_, _)
SplitWords(s, cur) ==
    IF s = <<>> THEN (IF cur = <<>> THEN <<>> ELSE <<cur>>)
    ELSE IF IsSpace(Head(s))
         THEN (IF cur = <<>> THEN <<>> ELSE <<cur>>) \o SplitWords(Tail(s), <<>>)
         ELSE SplitWords(Tail(s), Append(cur, Head(s)))

\* Array.prototype.join(' ')
RECURSIVE Join(_)
Join(ordered) ==
    IF ordered = <<>> THEN <<>>
    ELSE IF Len(ordered) = 1 THEN ordered[1]
    ELSE ordered[1] \o <<" ">> \o Join(Tail(ordered))

(***************************************************************************)
(* Transcript turn aggregator: ws.onmessage of useStreamingTranscription   *)
(***************************************************************************)
EmptyMap == << >>

\* variant: a turn older than one already held is dropped
ApplyTurnDropLate(map, order, text) ==
    IF \E k \in DOMAIN map : k > order THEN map
    ELSE [k \in DOMAIN map \cup {order} |-> IF k = order THEN text ELSE map[k]]

\* variant: a resent order is appended to the text held instead of replacing it
ApplyTurnConcat(map, order, text) ==
    [k \in DOMAIN map \cup {order} |->
        IF k # order THEN map[k]
        ELSE IF order \in DOMAIN map THEN map[order] \o <<" ">> \o text ELSE text]

\* turnsMapRef.current[turn_order] = turnText
ApplyTurn(map, order, text) ==
    [k \in DOMAIN map \cup {order} |-> IF k = order THEN text ELSE map[k]]

\* the sort comparator (a, b) => Number(a) - Number(b): a before b
CompareKeys(a, b) == a < b

\* Object.keys(turnsMapRef.current).sort(comparator)
RECURSIVE SortKeys(_)
SortKeys(S) ==
    IF S = {} THEN <<>>
    ELSE LET first == CHOOSE k \in S : \A j \in S \ {k} : CompareKeys(k, j)
         IN  <<first>> \o SortKeys(S \ {first})

\* .map((k) => turnsMapRef.current[k])
OrderedTurns(map) ==
    LET keys == SortKeys(DOMAIN map)
    IN  [i \in 1..Len(keys) |-> map[keys[i]]]

(***************************************************************************)
(* State                                                                   *)
(***************************************************************************)
VARIABLES
    \* useStreamingTranscription
    turnsMap,       \* turnsMapRef.current: turn_order -> text
    turns,          \* useState turns
    transcript,     \* useState transcript
    isConnected,
    isStarting,
    error,
    wsRef,          \* wsRef.current: a socket id, or 0 for null
    socks,          \* readyState of every WebSocket created by start();
                    \* "closing": close() was called, the close event is to come
    startPc,        \* position of the running start() call
    held,           \* the live media resources streamRef, streamsRef and
                    \* audioContextRef point to: "tab", "mic" streams, "ctx"
    leaked,         \* the live media resources no ref points to any more
    queueRef,       \* queueRef.current: the samples accumulated, oldest first
    worklets,       \* the sockets whose audio graph is live: its worklet posts
                    \* chunks to the onmessage handler that start() bound to the socket
    graphRef,       \* the socket whose audio graph audioContextRef.current runs
                    \* (0: null, or a context without a worklet)
    frames,         \* history: the frames passed to ws.send, oldest first
    captured,       \* history: the number of samples posted by the worklets
    \* Interview
    finalResult,
    evaluating,
    rubricQuestions,
    rubricQuestionsLoading,
    suggestedQuestionsFromApi,
    questionsLoading,
    partialResult,
    partialIntervalRef,   \* TRUE while the setInterval timer is armed
    effectDeps,           \* dependencies seen by the last run of the scheduler effect
    partialInflight,      \* ids of the partial-evaluation requests awaiting their response
    issued,               \* number of partial-evaluation requests issued so far
    lastApplied,          \* request whose response was applied last (0: none)
    finalInflight,        \* final-evaluation requests awaiting their response
    pendingReport,        \* localStorage[PENDING_REPORT_KEY]
    \* App
    started,              \* useState started: the Interview component is mounted
    recoveryData,         \* useState recoveryData: a snapshot, or absent for null
    inst,                 \* the mounted (or last mounted) instance of Interview
    selectedRole,         \* useState selectedRole
    \* permutation script (SpecPerm only)
    script,
    pending,
    \* environment
    now,                  \* Date.now(), in milliseconds since the page was first opened
    server,               \* the handler of an evaluation endpoint and the request it works on
    storageFull,          \* localStorage.setItem throws (quota exceeded)
    \* history
    startedWith,          \* the argument Home passed to onStart for the last live session
    reported              \* the sessions for which a final evaluation was answered with a report

mediaVars == <<held, leaked>>
audioVars == <<queueRef, worklets, graphRef, frames, captured>>
hookVars == <<turnsMap, turns, transcript, isConnected, isStarting, error, wsRef, socks, startPc,
             mediaVars, audioVars>>
questionVars == <<rubricQuestions, rubricQuestionsLoading, suggestedQuestionsFromApi, partialResult>>
schedVars == <<questionsLoading, partialIntervalRef, effectDeps, partialInflight, issued, lastApplied>>
finalVars == <<finalResult, evaluating, finalInflight, pendingReport>>
appVars == <<started, recoveryData, inst, selectedRole>>
permVars == <<script, pending>>
auxVars == <<now, server, storageFull, startedWith, reported>>
vars == <<hookVars, questionVars, schedVars, finalVars, appVars, permVars, auxVars>>

SockIds == 1..MaxSockets

(***************************************************************************)
(* Question reconciliation (Interview.jsx)                                 *)
(***************************************************************************)
\* variant: the minimum fraction of matching words is not tested
questionAskedNoFraction(question, text) ==
    IF question = <<>> \/ text = <<>> \/ Len(text) < MinHeuristicTranscript THEN FALSE
    ELSE LET q == Trim(StripPunctuation(ToLowerCase(question)))
             t == ToLowerCase(text)
             words == SelectSeq(SplitWords(q, <<>>),
                                LAMBDA w : Len(w) > 2 /\ w \notin stopWords)
             matchCount == Cardinality({i \in 1..Len(words) : Includes(t, words[i])})
             minCount == IF Len(words) < MinMatchCount THEN Len(words) ELSE MinMatchCount
         IN  IF Len(q) < ShortQuestionLen THEN Includes(t, q)
             ELSE IF Len(words) < 2 THEN Includes(t, Slice(q, PrefixLen))
             ELSE matchCount >= minCount

\* questionAskedInTranscript(question, transcript)
questionAskedInTranscript(question, text) ==
    IF question = <<>> \/ text = <<>> \/ Len(text) < MinHeuristicTranscript THEN FALSE
    ELSE LET q == Trim(StripPunctuation(ToLowerCase(question)))
             t == ToLowerCase(text)
             words == SelectSeq(SplitWords(q, <<>>),
                                LAMBDA w : Len(w) > 2 /\ w \notin stopWords)
             matchCount == Cardinality({i \in 1..Len(words) : Includes(t, words[i])})
             minCount == IF Len(words) < MinMatchCount THEN Len(words) ELSE MinMatchCount
         IN  IF Len(q) < ShortQuestionLen THEN Includes(t, q)
             ELSE IF Len(words) < 2 THEN Includes(t, Slice(q, PrefixLen))
             ELSE matchCount >= minCount /\ matchCount * 100 >= Len(words) * 35

\* the list the questions are taken from: the latest partial evaluation's
\* list when it is not empty, the rubric questions otherwise
SourceOf(fromApi, rubric) ==
    IF Len(fromApi) > 0 THEN fromApi ELSE rubric

\* variant: the flag of the backend is dropped, the heuristic alone decides
PresentedOfHeuristicOnly(fromApi, rubric, text) ==
    LET src == Slice(SourceOf(fromApi, rubric), MaxPresented)
    IN  [i \in 1..Len(src) |->
            [question |-> src[i].question,
             already_asked |-> questionAskedInTranscript(src[i].question, text)]]

\* variant: the list is not cut to its maximum length
PresentedOfUncapped(fromApi, rubric, text) ==
    LET src == SourceOf(fromApi, rubric)
    IN  [i \in 1..Len(src) |->
            [question |-> src[i].question,
             already_asked |-> src[i].already_asked
                               \/ questionAskedInTranscript(src[i].question, text)]]

\* the questions prop handed to SuggestedQuestions
PresentedOf(fromApi, rubric, text) ==
    LET src == Slice(SourceOf(fromApi, rubric), MaxPresented)
    IN  [i \in 1..Len(src) |->
            [question |-> src[i].question,
             already_asked |-> src[i].already_asked
                               \/ questionAskedInTranscript(src[i].question, text)]]

SourceQuestions == SourceOf(suggestedQuestionsFromApi, rubricQuestions)

PresentedQuestions ==
    PresentedOf(suggestedQuestionsFromApi, rubricQuestions, transcript)

showFinal == finalResult # NULL

\* the question panel is rendered: live view, list not replaced by "Loading"
ShownIn(final, loading, rubric) ==
    /\ final = NULL
    /\ ~(loading /\ Len(rubric) = 0)

QuestionsShown == ShownIn(finalResult, rubricQuestionsLoading, rubricQuestions)

(***************************************************************************)
(* Responses of the scoring backend and of the rubric source               *)
(***************************************************************************)
StringItem(q) == [kind |-> "string", question |-> q, already_asked |-> FALSE]
ObjectItem(q, b) == [kind |-> "object", question |-> q, already_asked |-> b]

\* an optional JSON field: <<>> when absent, <<v>> when present
Absent == <<>>
Present(v) == <<v>>

\* JSON bodies of a 2xx answer of /api/evaluate; suggested_questions is an
\* array, is absent, or is some value that is not an array ("other")
ApiResults ==
    {[current_impression |-> Present("steady"), partial_scores |-> Present(<<"s3">>),
      sq_kind |-> "array",
      sq_items |-> <<ObjectItem(Question1, FALSE), StringItem(Question2)>>],
     [current_impression |-> Present("strong"), partial_scores |-> Present(<<"s5">>),
      sq_kind |-> "array", sq_items |-> <<ObjectItem(Question1, TRUE)>>],
     [current_impression |-> Absent, partial_scores |-> Absent,
      sq_kind |-> "absent", sq_items |-> <<>>],
     [current_impression |-> Present("steady"), partial_scores |-> Present(<<"s3">>),
      sq_kind |-> "other", sq_items |-> <<>>]}

\* the object stored by setPartialResult
PartialOf(result) ==
    [partial_scores |-> IF result.partial_scores = Absent THEN <<>>
                        ELSE result.partial_scores[1],
     current_impression |-> IF result.current_impression = Absent THEN ""
                            ELSE result.current_impression[1]]

\* raw.map(...) of fetchPartialEvaluation
NormalizeItem(item) ==
    IF item.kind = "string"
    THEN [question |-> item.question, already_asked |-> FALSE]
    ELSE [question |-> item.question, already_asked |-> item.already_asked]

\* list.slice(0, 10) of the mapped result.suggested_questions || []
QuestionListOf(result) ==
    LET raw == result.sq_items
    IN  Slice([i \in 1..Len(raw) |-> NormalizeItem(raw[i])], MaxPresented)

\* answers of /api/rubric-sample-questions, mapped by fetchRubricSampleQuestions
RubricLists ==
    {<<>>,
     <<[question |-> Question1, already_asked |-> FALSE],
       [question |-> Question2, already_asked |-> FALSE]>>}

(***************************************************************************)
(* Evaluation scheduler (Interview.jsx)                                    *)
(***************************************************************************)
\* isRecoveryMode = !!recoveryData
isRecoveryMode == recoveryData # Absent

\* the transcript and the turns the component works with: those of the
\* recovered snapshot in recovery mode, the live ones otherwise
viewTranscript == IF isRecoveryMode THEN recoveryData[1].transcript ELSE transcript

viewTurns == IF isRecoveryMode THEN recoveryData[1].turns ELSE turns

\* transcript.trim().length >= MIN_TRANSCRIPT_FOR_QUESTIONS
EnoughIn(t) == Len(Trim(t)) >= MIN_TRANSCRIPT_FOR_QUESTIONS

hasEnoughTranscript == EnoughIn(viewTranscript)

\* the dependencies of the scheduler effect that change while the component
\* is mounted
Deps == <<isConnected, hasEnoughTranscript>>

\* a commit changed the dependencies and the effect has not run again yet
EffectsPending == started /\ effectDeps # Deps

\* variant: the length threshold is not tested
CanFetchAnyLength(t) == Trim(t) # <<>>

\* the guard of fetchPartialEvaluation: it goes on to call evaluatePartial
CanFetch(t) == Trim(t) # <<>> /\ Len(t) >= MIN_TRANSCRIPT_FOR_QUESTIONS

\* fetchPartialEvaluation() up to its await
fetchPartialEvaluation ==
    IF CanFetch(transcript)
    THEN /\ issued < MaxRequests
         /\ partialInflight' = partialInflight \cup {issued + 1}
         /\ issued' = issued + 1
         /\ questionsLoading' = TRUE
    ELSE UNCHANGED <<partialInflight, issued, questionsLoading>>

\* the scheduler effect, run for the committed dependencies: the cleanup of
\* the previous run, then the body
RunSchedulerEffect(connected) ==
    /\ effectDeps' = <<connected, hasEnoughTranscript>>
    /\ IF ~isRecoveryMode /\ connected /\ hasEnoughTranscript
       THEN /\ fetchPartialEvaluation
            /\ partialIntervalRef' = TRUE
       ELSE /\ partialIntervalRef' = FALSE
            /\ UNCHANGED <<partialInflight, issued, questionsLoading>>

(***************************************************************************)
(* Final evaluation (Interview.jsx)                                        *)
(***************************************************************************)
\* the role the Interview works with: that of the recovered snapshot in
\* recovery mode, the one chosen on the home screen otherwise
viewRole == IF isRecoveryMode THEN recoveryData[1].selectedRole ELSE selectedRole

\* the recipientEmail state of the App: handleStart sets it to null
recipientEmail == NULL

\* effectiveRecipientEmail, for the recoveryData prop rd
RecipientOf(rd) == IF rd # Absent THEN rd[1].recipientEmail ELSE recipientEmail

viewRecipient == RecipientOf(recoveryData)

\* the session the component works on (history): the live session of this
\* mount, or the session that saved the recovered snapshot
viewSession == IF isRecoveryMode THEN recoveryData[1].session ELSE inst

\* the object written by savePendingReport; the field session is history,
\* it records the live session the transcript comes from
Snapshot(t, ts, recipient, role, at, sid) ==
    [transcript |-> t, turns |-> ts, recipientEmail |-> recipient, selectedRole |-> role,
     savedAt |-> at, session |-> sid]


\* getPendingReport(): the stored object has a transcript
Readable(stored) == stored # Absent /\ stored[1].transcript # <<>>

\* getPendingReport(): Date.now() - (data.savedAt || 0) > 24 * 60 * 60 * 1000
Expired(stored, t) == t - stored[1].savedAt > PendingMaxAgeMs

\* variant: the age of the snapshot is not tested
PendingOfAnyAge(stored, t) ==
    IF Readable(stored) THEN stored ELSE Absent

\* getPendingReport(): the value returned
PendingOf(stored, t) ==
    IF Readable(stored) /\ ~Expired(stored, t) THEN stored ELSE Absent

\* getPendingReport(): the storage it leaves, clearPendingReport() having
\* removed a snapshot that is too old
StorageAfterGet(stored, t) ==
    IF Readable(stored) /\ Expired(stored, t) THEN Absent ELSE stored

getPendingReport == PendingOf(pendingReport, now)

\* savePendingReport(): the storage it leaves; an error of setItem is caught
\* and dropped
savePendingReport(snapshot) ==
    IF storageFull THEN pendingReport ELSE Present(snapshot)

\* variant: the snapshot is written without the turns
runFinalEvaluationDropsTurns ==
    IF Trim(viewTranscript) = <<>>
    THEN /\ finalResult' = "error"
         /\ UNCHANGED <<evaluating, finalInflight, pendingReport>>
    ELSE /\ evaluating' = TRUE
         /\ finalResult' = NULL
         /\ pendingReport' = savePendingReport(Snapshot(viewTranscript, <<>>,
                                                viewRecipient, viewRole, now, viewSession))
         /\ finalInflight' = finalInflight \cup
                {[transcript |-> viewTranscript, turns |-> viewTurns,
                  role |-> viewRole, inst |-> inst, session |-> viewSession]}

\* variant: the snapshot is not written before the request is sent
runFinalEvaluationNoSave ==
    IF Trim(viewTranscript) = <<>>
    THEN /\ finalResult' = "error"
         /\ UNCHANGED <<evaluating, finalInflight, pendingReport>>
    ELSE /\ evaluating' = TRUE
         /\ finalResult' = NULL
         /\ UNCHANGED pendingReport
         /\ finalInflight' = finalInflight \cup
                {[transcript |-> viewTranscript, turns |-> viewTurns,
                  role |-> viewRole, inst |-> inst, session |-> viewSession]}

\* variant: a blank transcript is saved and sent like any other
runFinalEvaluationNoGuard ==
    /\ evaluating' = TRUE
    /\ finalResult' = NULL
    /\ pendingReport' = savePendingReport(Snapshot(viewTranscript, viewTurns,
                                           viewRecipient, viewRole, now, viewSession))
    /\ finalInflight' = finalInflight \cup
           {[transcript |-> viewTranscript, turns |-> viewTurns,
             role |-> viewRole, inst |-> inst, session |-> viewSession]}

\* runFinalEvaluation() up to its await; setFinalResult(null) of a retry is
\* batched with it
runFinalEvaluation ==
    IF Trim(viewTranscript) = <<>>
    THEN /\ finalResult' = "error"
         /\ UNCHANGED <<evaluating, finalInflight, pendingReport>>
    ELSE /\ evaluating' = TRUE
         /\ finalResult' = NULL
         /\ pendingReport' = savePendingReport(Snapshot(viewTranscript, viewTurns,
                                                viewRecipient, viewRole, now, viewSession))
         /\ finalInflight' = finalInflight \cup
                {[transcript |-> viewTranscript, turns |-> viewTurns,
                  role |-> viewRole, inst |-> inst, session |-> viewSession]}

(***************************************************************************)
(* Server: POST /api/evaluate-final (routes/evaluate.js)                   *)
(***************************************************************************)
\* a field of the JSON body: missing, a value that is not a string, a string
Missing == [type |-> "undefined", value |-> <<>>]
NotString == [type |-> "number", value |-> <<>>]
Str(text) == [type |-> "string", value |-> text]

\* "\n\n[Note: Earlier part of transcript omitted for length. Above is the
\* final portion of the interview.]" (101 characters)
OmissionNotice ==
    <<"\n", "\n", "[", "N", "o", "t", "e", ":", " ", "E", "a", "r", "l", "i",
      "e", "r", " ", "p", "a", "r", "t", " ", "o", "f", " ", "t", "r", "a",
      "n", "s", "c", "r", "i", "p", "t", " ", "o", "m", "i", "t", "t", "e",
      "d", " ", "f", "o", "r", " ", "l", "e", "n", "g", "t", "h", ".", " ",
      "A", "b", "o", "v", "e", " ", "i", "s", " ", "t", "h", "e", " ", "f",
      "i", "n", "a", "l", " ", "p", "o", "r", "t", "i", "o", "n", " ", "o",
      "f", " ", "t", "h", "e", " ", "i", "n", "t", "e", "r", "v", "i", "e",
      "w", ".", "]">>

\* variant: the first MAX_TRANSCRIPT_CHARS characters are kept
TranscriptForEvalHead(text) ==
    IF Len(text) <= MAX_TRANSCRIPT_CHARS THEN text
    ELSE SubSeq(text, 1, MAX_TRANSCRIPT_CHARS) \o OmissionNotice

\* transcriptForEval: transcript.slice(-MAX_TRANSCRIPT_CHARS) starts at
\* max(length - MAX_TRANSCRIPT_CHARS, 0)
TranscriptForEval(text) ==
    IF Len(text) <= MAX_TRANSCRIPT_CHARS THEN text
    ELSE LET from == IF Len(text) - MAX_TRANSCRIPT_CHARS > 0
                     THEN Len(text) - MAX_TRANSCRIPT_CHARS ELSE 0
         IN  SubSeq(text, from + 1, Len(text)) \o OmissionNotice

\* EMAIL_REGEX = /^[^\s@]+@[^\s@]+\.[^\s@]+$/: no white space, one "@" after
\* at least one character, and after it a "." with at least one character
\* on either side
MatchesEmailRegex(e) ==
    /\ \A i \in 1..Len(e) : ~IsSpace(e[i])
    /\ \E i \in 2..Len(e) :
          /\ e[i] = "@"
          /\ \A k \in 1..Len(e) : e[k] = "@" => k = i
          /\ \E j \in (i + 2)..(Len(e) - 1) : e[j] = "."

\* getValidEmail(body): the trimmed address, or absent for null
getValidEmail(body) ==
    LET raw == IF body.email.type # "undefined" THEN body.email ELSE body.recipientEmail
        trimmed == Trim(raw.value)
    IN  IF raw.type # "string" THEN Absent
        ELSE IF trimmed # <<>> /\ MatchesEmailRegex(trimmed) THEN Present(trimmed)
        ELSE Absent

\* The content grokChat resolves with is a text over these symbols: the
\* fence of three backquotes, the word json, a blank, the double quote, a
\* digit, a letter, and the opening {"k": and the closing } of an object with
\* one member
Fence == "fence"
JsonWord == "json"
Quote == "quote"
ObjOpen == "{k:"
ObjClose == "}"
RawSymbols == {Fence, JsonWord, " ", Quote, "1", "x", ObjOpen, ObjClose}

\* JSON.parse accepts the text: a number, a string without an escape, or an
\* object whose member is such a value
RECURSIVE IsJsonText(_)
IsJsonText(raw) ==
    \/ raw = <<"1">>
    \/ /\ Len(raw) >= 2
       /\ raw[1] = Quote /\ raw[Len(raw)] = Quote
       /\ \A i \in 2..(Len(raw) - 1) : raw[i] \notin {Quote}
    \/ /\ Len(raw) >= 3
       /\ raw[1] = ObjOpen /\ raw[Len(raw)] = ObjClose
       /\ IsJsonText(SubSeq(raw, 2, Len(raw) - 1))

\* the positions of the fences of a text
FencesOf(t) == {i \in 1..Len(t) : t[i] = Fence}

\* trimmed.match(/fence(?:json)?\s*([\s\S]*?)fence/): the match starts at the
\* first fence that has a fence behind it, skips the word json when it
\* follows, and captures up to the next fence; absent when nothing matches
CodeBlockOf(trimmed) ==
    IF Cardinality(FencesOf(trimmed)) < 2 THEN Absent
    ELSE LET open == CHOOSE i \in FencesOf(trimmed) : \A j \in FencesOf(trimmed) : i <= j
             from == IF trimmed[open + 1] = JsonWord THEN open + 2 ELSE open + 1
             close == CHOOSE i \in FencesOf(trimmed) :
                         /\ i >= from
                         /\ \A j \in FencesOf(trimmed) : j >= from => i <= j
         IN  Present(SubSeq(trimmed, from, close - 1))

\* the text extractJson hands to JSON.parse
ExtractedText(text) ==
    LET trimmed == Trim(text)
        codeBlock == CodeBlockOf(trimmed)
    IN  IF codeBlock # Absent THEN Trim(codeBlock[1]) ELSE trimmed

\* extractJson(text): the value parsed, named by its JSON text; absent when
\* JSON.parse throws
extractJson(text) ==
    IF IsJsonText(ExtractedText(text)) THEN Present(ExtractedText(text)) ELSE Absent

\* a text inside a code fence: fence, json, a blank, the text, a blank, fence
Fenced(text) == <<Fence, JsonWord, " ">> \o text \o <<" ", Fence>>

\* {"k":"x"}
JsonObject == <<ObjOpen, Quote, "x", Quote, ObjClose>>

\* x x
Prose == <<"x", " ", "x">>

\* what grokChat resolves with: no content, or a text that is JSON or not,
\* bare or inside a code fence
RawAnswers ==
    {<<>>, JsonObject, Fenced(JsonObject), Prose, Fenced(Prose)}

\* the outcomes of sendEvaluationEmail: it resolves with true, resolves with
\* false (no API key), or throws an error with or without a message
MailOutcomes ==
    {[kind |-> "true", message |-> ""], [kind |-> "false", message |-> ""],
     [kind |-> "throws", message |-> ""], [kind |-> "throws", message |-> "Unauthorized"]}

\* the answer of the handler
Response(status, evaluation, sent, emailError, err) ==
    [status |-> status, evaluation |-> evaluation, emailSent |-> sent,
     emailError |-> emailError, error |-> err]

NoResponse == Response(0, Absent, FALSE, Absent, Absent)

\* Messages of errors are sequences of words. An error thrown by grokChat
\* for an answer that is not 2xx has the status and, as its message, the body
\* of the answer, or "Grok API <status>" for an empty body
StatusWord(status) ==
    IF status = 429 THEN "429" ELSE IF status = 503 THEN "503" ELSE "500"

UpstreamError(status, errText) ==
    [status |-> status,
     message |-> IF errText # <<>> THEN errText ELSE <<"Grok", "API", StatusWord(status)>>]

\* the answers of the scoring backend that are not 2xx
TransportErrors ==
    {UpstreamError(429, <<>>), UpstreamError(500, <<>>), UpstreamError(503, <<"overloaded">>)}

\* the positions at which JSON.parse gives up on a text that is not JSON
ErrorPositions == {"64", "429"}

\* the SyntaxError of JSON.parse; it has no status (0). Its message names
\* the position: "Unterminated string in JSON at position <pos>"
SyntaxError(pos) ==
    [status |-> 0, message |-> <<"Unterminated", "string", "in", "JSON", "at", "position", pos>>]

\* String(err.message).includes('429')
Includes429(message) == \E i \in 1..Len(message) : message[i] = "429"

\* the catch block of evaluatePartial and of evaluateFinal; fallback is the
\* message used for an error without one
CatchResponse(err, fallback) ==
    LET is429 == err.status = 429 \/ Includes429(err.message)
    IN  IF is429
        THEN Response(429, Absent, FALSE, Absent,
                      Present(<<"Grok API rate limit exceeded. Check your x.ai plan.">>))
        ELSE Response(500, Absent, FALSE, Absent,
                      Present(IF err.message # <<>> THEN err.message ELSE fallback))

\* the message of the catch block for an error without a message
Fallback(endpoint) ==
    IF endpoint = "partial" THEN <<"Evaluation failed">> ELSE <<"Final evaluation failed">>

\* the handler and its request: endpoint is the route, pc the position of
\* the handler, calls counts the calls of grokChat, mail is the outcome of
\* sendEvaluationEmail when it was called; raw (what grokChat resolved with)
\* and fault (what went wrong: "none", "transport", "empty", "parse") are
\* history
ServerState(pc, body, to, prompt, calls, parsed, mail, response) ==
    [pc |-> pc, body |-> body, toEmail |-> to, prompt |-> prompt, calls |-> calls,
     parsed |-> parsed, mail |-> mail, response |-> response,
     endpoint |-> "final", raw |-> Absent, fault |-> "none"]

NoBody == [transcript |-> Missing, turns |-> <<>>, email |-> Missing, recipientEmail |-> Missing]

\* the server is not working on a request
ServerIdle == ServerState("idle", NoBody, Absent, <<>>, 0, Absent, Absent, NoResponse)

(***************************************************************************)
(* Initial state: the Interview component mounted for a live session       *)
(***************************************************************************)
InitSession ==
    /\ turnsMap = EmptyMap
    /\ turns = <<>>
    /\ transcript = <<>>
    /\ isConnected = FALSE
    /\ isStarting = FALSE
    /\ error = NULL
    /\ wsRef = 0
    /\ socks = [s \in SockIds |-> "unused"]
    /\ startPc = "idle"
    /\ held = {}
    /\ leaked = {}
    /\ queueRef = <<>>
    /\ worklets = {}
    /\ graphRef = 0
    /\ frames = <<>>
    /\ captured = 0
    /\ finalResult = NULL
    /\ evaluating = FALSE
    /\ rubricQuestions = <<>>
    /\ rubricQuestionsLoading = TRUE
    /\ suggestedQuestionsFromApi = <<>>
    /\ questionsLoading = FALSE
    /\ partialResult = Absent
    /\ partialIntervalRef = FALSE
    /\ effectDeps = <<FALSE, FALSE>>
    /\ partialInflight = {}
    /\ issued = 0
    /\ lastApplied = 0
    /\ finalInflight = {}
    /\ pendingReport = Absent

\* a live session whose first socket has just opened: the state after
\* StartClick, StartSocket(1), WsOpen(1) and the effect that follows
InitConnected ==
    /\ turnsMap = EmptyMap
    /\ turns = <<>>
    /\ transcript = <<>>
    /\ isConnected = TRUE
    /\ isStarting = FALSE
    /\ error = NULL
    /\ wsRef = 1
    /\ socks = [s \in SockIds |-> IF s = 1 THEN "open" ELSE "unused"]
    /\ startPc = "idle"
    /\ held = {"tab", "mic", "ctx"}
    /\ leaked = {}
    /\ queueRef = <<>>
    /\ worklets = {1}
    /\ graphRef = 1
    /\ frames = <<>>
    /\ captured = 0
    /\ finalResult = NULL
    /\ evaluating = FALSE
    /\ rubricQuestions = <<>>
    /\ rubricQuestionsLoading = TRUE
    /\ suggestedQuestionsFromApi = <<>>
    /\ questionsLoading = FALSE
    /\ partialResult = Absent
    /\ partialIntervalRef = FALSE
    /\ effectDeps = <<TRUE, FALSE>>
    /\ partialInflight = {}
    /\ issued = 0
    /\ lastApplied = 0
    /\ finalInflight = {}
    /\ pendingReport = Absent

\* the App has mounted the Interview for a live session
Init ==
    /\ InitSession
    /\ started = TRUE
    /\ recoveryData = Absent
    /\ inst = 1
    /\ selectedRole = "vp-sales"
    /\ script = {}
    /\ pending = {}
    /\ now = 0
    /\ server = ServerIdle
    /\ storageFull = FALSE
    /\ startedWith = NULL
    /\ reported = {}

(***************************************************************************)
(* useStreamingTranscription: start, socket handlers                       *)
(***************************************************************************)
\* variant: "Start recording" is also offered in the recovery view
StartClickInRecovery ==
    /\ ~EffectsPending
    /\ started
    /\ ~isConnected /\ ~showFinal /\ ~evaluating /\ ~isStarting
    /\ startPc = "idle"
    /\ error' = NULL
    /\ isStarting' = TRUE
    /\ startPc' = "acquiring"
    /\ UNCHANGED <<turnsMap, turns, transcript, isConnected, wsRef, socks>>
    /\ UNCHANGED <<mediaVars, audioVars>>
    /\ UNCHANGED <<questionVars, schedVars, finalVars, permVars, auxVars, appVars>>

\* click on "Start recording": start() up to its first await
StartClick ==
    /\ ~EffectsPending
    /\ started /\ ~isRecoveryMode
    /\ ~isConnected /\ ~showFinal /\ ~evaluating /\ ~isStarting
    /\ startPc = "idle"
    /\ error' = NULL
    /\ isStarting' = TRUE
    /\ startPc' = "acquiring"
    /\ UNCHANGED <<turnsMap, turns, transcript, isConnected, wsRef, socks>>
    /\ UNCHANGED <<mediaVars, audioVars>>
    /\ UNCHANGED <<questionVars, schedVars, finalVars, permVars, auxVars, appVars>>

\* the options of the "Audio from" select: the argument of start()
AudioSources == {"mic", "tab", "both"}

\* the streams start(audioSource) acquires
StreamsOf(src) ==
    IF src = "both" THEN {"tab", "mic"} ELSE IF src = "tab" THEN {"tab"} ELSE {"mic"}

\* the ways start(audioSource) ends without a socket:
\*   token          the token request fails or answers without a token
\*   noMediaDevices navigator.mediaDevices is undefined (insecure context)
\*   unsupported    navigator.mediaDevices has no getDisplayMedia
\*   displayDenied  getDisplayMedia rejects
\*   noTabAudio     the shared tab has no audio track
\*   micDenied      getUserMedia rejects
\*   module         audioWorklet.addModule rejects
StartFailures ==
    {"token", "noMediaDevices", "unsupported", "displayDenied", "noTabAudio",
     "micDenied", "module"}

\* the failure can happen for the source
FailureOf(kind, src) ==
    /\ kind \in StartFailures
    /\ kind \in {"unsupported", "displayDenied", "noTabAudio"} => src \in {"tab", "both"}
    /\ kind = "micDenied" => src \in {"mic", "both"}

\* navigator.mediaDevices.getDisplayMedia is read outside any try block
\* (lines 86, 129): with mediaDevices undefined start() rejects there
Throws(kind, src) == kind = "noMediaDevices" /\ src \in {"tab", "both"}

\* the source and the failure of the sessions that are not about capture:
\* the preselected source, a failing token request
SessionSources == {"both"}

SessionFailures == {"token"}

\* variant: every failure is caught and reported
StartFailAllCaught(kind, src) ==
    /\ ~EffectsPending
    /\ startPc = "acquiring"
    /\ FailureOf(kind, src)
    /\ startPc' = "idle"
    /\ error' = "capture"
    /\ isStarting' = FALSE
    /\ held' = IF kind = "module" THEN StreamsOf(src) \cup {"ctx"} ELSE held
    /\ leaked' = IF kind = "module" THEN leaked \cup held
                 ELSE IF kind = "micDenied" /\ src = "both" THEN leaked \cup {"tab"}
                 ELSE leaked
    /\ graphRef' = IF kind = "module" THEN 0 ELSE graphRef
    /\ UNCHANGED <<queueRef, worklets, frames, captured>>
    /\ UNCHANGED <<turnsMap, turns, transcript, isConnected, wsRef, socks>>
    /\ UNCHANGED <<questionVars, schedVars, finalVars, permVars, auxVars, appVars>>

\* start(): the token request, the acquisition of a source or the loading of
\* the audio processor failed. A failure that is caught sets the error and
\* isStarting; in "both" mode a denied microphone leaves the tab stream
\* acquired before it live and unreferenced; a failure of addModule comes
\* after the refs were set and the AudioContext was created
StartFail(kind, src) ==
    /\ ~EffectsPending
    /\ startPc = "acquiring"
    /\ FailureOf(kind, src)
    /\ startPc' = "idle"
    /\ IF Throws(kind, src)
       THEN UNCHANGED <<error, isStarting>>
       ELSE error' = "capture" /\ isStarting' = FALSE
    /\ held' = IF kind = "module" THEN StreamsOf(src) \cup {"ctx"} ELSE held
    /\ leaked' = IF kind = "module" THEN leaked \cup held
                 ELSE IF kind = "micDenied" /\ src = "both" THEN leaked \cup {"tab"}
                 ELSE leaked
    /\ graphRef' = IF kind = "module" THEN 0 ELSE graphRef
    /\ UNCHANGED <<queueRef, worklets, frames, captured>>
    /\ UNCHANGED <<turnsMap, turns, transcript, isConnected, wsRef, socks>>
    /\ UNCHANGED <<questionVars, schedVars, finalVars, permVars, auxVars, appVars>>

\* start(): the streams are acquired, the refs are set to them, the
\* AudioContext is created, then new WebSocket(endpoint); wsRef.current = ws.
\* What the refs pointed to before is not released
StartSocket(s, src) ==
    /\ ~EffectsPending
    /\ startPc = "acquiring"
    /\ src \in AudioSources
    /\ socks[s] = "unused"
    /\ \A r \in SockIds : r < s => socks[r] # "unused"
    /\ socks' = [socks EXCEPT ![s] = "connecting"]
    /\ wsRef' = s
    /\ startPc' = "idle"
    /\ held' = StreamsOf(src) \cup {"ctx"}
    /\ leaked' = leaked \cup held
    /\ worklets' = worklets \cup {s}
    /\ graphRef' = s
    /\ UNCHANGED <<queueRef, frames, captured>>
    /\ UNCHANGED <<turnsMap, turns, transcript, isConnected, isStarting, error>>
    /\ UNCHANGED <<questionVars, schedVars, finalVars, permVars, auxVars, appVars>>

\* ws.onopen
WsOpen(s) ==
    /\ ~EffectsPending
    /\ socks[s] = "connecting"
    /\ socks' = [socks EXCEPT ![s] = "open"]
    /\ isConnected' = TRUE
    /\ isStarting' = FALSE
    /\ queueRef' = <<>>
    /\ turnsMap' = EmptyMap
    /\ UNCHANGED <<turns, transcript, error, wsRef, startPc>>
    /\ UNCHANGED <<mediaVars, worklets, graphRef, frames, captured>>
    /\ UNCHANGED <<questionVars, schedVars, finalVars, permVars, auxVars, appVars>>

\* variant: a message event is also dispatched on a socket whose close() was
\* called
OnMessageWhileClosing(s, turn_order, turnText) ==
    /\ ~EffectsPending
    /\ socks[s] \in {"open", "closing"}
    /\ LET map == ApplyTurn(turnsMap, turn_order, turnText)
           ordered == OrderedTurns(map)
       IN  /\ turnsMap' = map
           /\ turns' = ordered
           /\ transcript' = Join(ordered)
    /\ UNCHANGED <<isConnected, isStarting, error, wsRef, socks, startPc>>
    /\ UNCHANGED <<mediaVars, audioVars>>
    /\ UNCHANGED <<questionVars, schedVars, finalVars, appVars>>

\* ws.onmessage for {type: 'Turn', turn_order, transcript}; the user agent
\* dispatches message events only while the socket is open
OnMessage(s, turn_order, turnText) ==
    /\ ~EffectsPending
    /\ socks[s] = "open"
    /\ LET map == ApplyTurn(turnsMap, turn_order, turnText)
           ordered == OrderedTurns(map)
       IN  /\ turnsMap' = map
           /\ turns' = ordered
           /\ transcript' = Join(ordered)
    /\ UNCHANGED <<isConnected, isStarting, error, wsRef, socks, startPc>>
    /\ UNCHANGED <<mediaVars, audioVars>>
    /\ UNCHANGED <<questionVars, schedVars, finalVars, appVars>>

WsMessage(s, turn_order, turnText) ==
    /\ OnMessage(s, turn_order, turnText)
    /\ UNCHANGED <<permVars, auxVars>>

\* variant: the handlers of a failed connection also reset the transcript
WsErrorClearsTranscript(s) ==
    /\ ~EffectsPending
    /\ socks[s] \in {"connecting", "open"}
    /\ socks' = [socks EXCEPT ![s] = "closed"]
    /\ error' = "websocket"
    /\ isConnected' = FALSE
    /\ isStarting' = FALSE
    /\ turnsMap' = EmptyMap
    /\ turns' = <<>>
    /\ transcript' = <<>>
    /\ UNCHANGED <<wsRef, startPc>>
    /\ UNCHANGED <<mediaVars, audioVars>>
    /\ UNCHANGED <<questionVars, schedVars, finalVars, permVars, auxVars, appVars>>

\* the connection has failed: the user agent fires the error event and the
\* close event in one task, so ws.onerror and ws.onclose run back to back
WsError(s) ==
    /\ ~EffectsPending
    /\ socks[s] \in {"connecting", "open"}
    /\ socks' = [socks EXCEPT ![s] = "closed"]
    /\ error' = "websocket"
    /\ isConnected' = FALSE
    /\ isStarting' = FALSE
    /\ UNCHANGED <<turnsMap, turns, transcript, wsRef, startPc>>
    /\ UNCHANGED <<mediaVars, audioVars>>
    /\ UNCHANGED <<questionVars, schedVars, finalVars, permVars, auxVars, appVars>>

\* ws.onclose
WsClose(s) ==
    /\ ~EffectsPending
    /\ socks[s] \in {"connecting", "open", "closing"}
    /\ socks' = [socks EXCEPT ![s] = "closed"]
    /\ isConnected' = FALSE
    /\ isStarting' = FALSE
    /\ UNCHANGED <<turnsMap, turns, transcript, error, wsRef, startPc>>
    /\ UNCHANGED <<mediaVars, audioVars>>
    /\ UNCHANGED <<questionVars, schedVars, finalVars, permVars, auxVars, appVars>>

\* Math.floor((SAMPLE_RATE * CHUNK_MS) / 1000)
MIN_SAMPLES == (SAMPLE_RATE * CHUNK_MS) \div 1000

\* Math.floor(SAMPLE_RATE * 0.1)
toSend == SAMPLE_RATE \div 10

\* variant: the frame is the first toSend samples and the rest of the queue
\* is discarded
HandoffDropsLeftover(queue, chunk, open) ==
    LET merged == queue \o chunk
    IN  IF Len(merged) * 1000 >= CHUNK_MS * SAMPLE_RATE /\ open
        THEN [queue |-> <<>>, sent |-> Present(SubSeq(merged, 1, toSend))]
        ELSE [queue |-> merged, sent |-> Absent]

\* worklet.port.onmessage: the chunk is merged behind the queue; with
\* durationMs = length / SAMPLE_RATE * 1000 >= CHUNK_MS and the socket open,
\* slice = subarray(0, toSend) is a view of the merged array, and
\* new Uint8Array(slice.buffer) is the whole ArrayBuffer of the merged array,
\* which mergeBuffers has just allocated: the frame sent holds every sample
\* of the queue. The queue becomes the view subarray(toSend)
Handoff(queue, chunk, open) ==
    LET merged == queue \o chunk
        buffer == merged
    IN  IF Len(merged) * 1000 >= CHUNK_MS * SAMPLE_RATE /\ open
        THEN [queue |-> SubSeq(merged, toSend + 1, Len(merged)), sent |-> Present(buffer)]
        ELSE [queue |-> merged, sent |-> Absent]

\* AudioProcessor.process posts the samples of one render quantum, and the
\* onmessage handler that start() bound to socket w runs. Samples are
\* numbered in the order of capture
AudioChunk(w) ==
    /\ ~EffectsPending
    /\ w \in worklets
    /\ captured < MaxChunks * RenderQuantum
    /\ LET chunk == [i \in 1..RenderQuantum |-> captured + i]
           out == Handoff(queueRef, chunk, socks[w] = "open")
       IN  /\ queueRef' = out.queue
           /\ frames' = IF out.sent = Absent THEN frames ELSE Append(frames, out.sent[1])
    /\ captured' = captured + RenderQuantum
    /\ UNCHANGED <<worklets, graphRef>>
    /\ UNCHANGED <<turnsMap, turns, transcript, isConnected, isStarting, error, wsRef, socks,
                   startPc, mediaVars>>
    /\ UNCHANGED <<questionVars, schedVars, finalVars, permVars, auxVars, appVars>>

\* stop(): the socket is closed, the tracks of the referenced streams are
\* stopped, the referenced AudioContext is closed, the refs are cleared and
\* setIsConnected(false); send() throws on a socket that is still
\* connecting, which skips close()
stop ==
    /\ held' = {}
    /\ worklets' = worklets \ {graphRef}
    /\ graphRef' = 0
    /\ queueRef' = <<>>
    /\ wsRef' = 0
    /\ socks' = IF wsRef # 0 /\ socks[wsRef] = "open"
                THEN [socks EXCEPT ![wsRef] = "closing"]
                ELSE socks
    /\ isConnected' = FALSE

(***************************************************************************)
(* Interview: scheduler, partial and final evaluation                      *)
(***************************************************************************)
\* the rubric questions requested on mount arrive
RubricLoaded(list) ==
    /\ ~EffectsPending
    /\ rubricQuestionsLoading
    /\ rubricQuestions' = list
    /\ rubricQuestionsLoading' = FALSE
    /\ UNCHANGED <<suggestedQuestionsFromApi, partialResult>>
    /\ UNCHANGED <<hookVars, schedVars, finalVars, permVars, auxVars, appVars>>

\* the rubric request fails
RubricFailed ==
    /\ ~EffectsPending
    /\ rubricQuestionsLoading
    /\ rubricQuestionsLoading' = FALSE
    /\ UNCHANGED <<rubricQuestions, suggestedQuestionsFromApi, partialResult>>
    /\ UNCHANGED <<hookVars, schedVars, finalVars, permVars, auxVars, appVars>>

\* React runs the scheduler effect of the last commit (cleanup, then body)
FlushEffects ==
    /\ EffectsPending
    /\ RunSchedulerEffect(isConnected)
    /\ UNCHANGED lastApplied
    /\ UNCHANGED <<hookVars, questionVars, finalVars, permVars, auxVars, appVars>>

\* the setInterval timer fires; it can fire before a pending effect cleanup
Tick ==
    /\ partialIntervalRef
    /\ fetchPartialEvaluation
    /\ UNCHANGED <<partialIntervalRef, effectDeps, lastApplied>>
    /\ UNCHANGED <<hookVars, questionVars, finalVars, permVars, auxVars, appVars>>

\* evaluatePartial resolved with a 2xx JSON body
PartialOk(r, result) ==
    /\ ~EffectsPending
    /\ r \in partialInflight
    /\ partialInflight' = partialInflight \ {r}
    /\ partialResult' = Present(PartialOf(result))
    /\ suggestedQuestionsFromApi' =
           IF result.sq_kind = "other" THEN suggestedQuestionsFromApi
           ELSE QuestionListOf(result)
    /\ questionsLoading' = FALSE
    /\ lastApplied' = r
    /\ UNCHANGED <<partialIntervalRef, effectDeps, issued>>
    /\ UNCHANGED <<rubricQuestions, rubricQuestionsLoading>>
    /\ UNCHANGED <<hookVars, finalVars, permVars, auxVars, appVars>>

\* variant: a failed request clears the live evaluation and the question list
PartialFailClears(r) ==
    /\ ~EffectsPending
    /\ r \in partialInflight
    /\ partialInflight' = partialInflight \ {r}
    /\ questionsLoading' = FALSE
    /\ partialResult' = Absent
    /\ suggestedQuestionsFromApi' = <<>>
    /\ UNCHANGED <<rubricQuestions, rubricQuestionsLoading>>
    /\ UNCHANGED <<partialIntervalRef, effectDeps, issued, lastApplied>>
    /\ UNCHANGED <<hookVars, finalVars, permVars, auxVars, appVars>>

\* evaluatePartial threw: network error or a status that is not 2xx
PartialFail(r) ==
    /\ ~EffectsPending
    /\ r \in partialInflight
    /\ partialInflight' = partialInflight \ {r}
    /\ questionsLoading' = FALSE
    /\ UNCHANGED <<partialIntervalRef, effectDeps, issued, lastApplied>>
    /\ UNCHANGED <<hookVars, questionVars, finalVars, permVars, auxVars, appVars>>

\* the header renders the button "End Interview", enabled
EndInterviewOffered ==
    /\ started /\ ~isRecoveryMode
    /\ isConnected /\ ~showFinal /\ ~evaluating

\* click on "End Interview": handleEndInterview, then the synchronous commit
EndInterviewClick ==
    /\ ~EffectsPending
    /\ EndInterviewOffered
    /\ stop
    /\ runFinalEvaluation
    /\ RunSchedulerEffect(FALSE)
    /\ UNCHANGED <<turnsMap, turns, transcript, isStarting, error, startPc, leaked>>
    /\ UNCHANGED <<frames, captured>>
    /\ UNCHANGED <<lastApplied, questionVars, permVars, auxVars, appVars>>

\* click on "Retry report": handleRetryFinal
RetryFinalClick ==
    /\ ~EffectsPending
    /\ started
    /\ finalResult \in {"error", "empty"}
    /\ runFinalEvaluation
    /\ UNCHANGED <<hookVars, questionVars, schedVars, permVars, auxVars, appVars>>

\* the outcomes of evaluateFinal that resolve: a report, or a 2xx body
\* without evaluation data
FinalResults == {"report", "empty"}

\* the component that awaits the request f is still mounted
Mounted(f) == started /\ f.inst = inst

\* evaluateFinal resolved; the state setters of an unmounted component do nothing
FinalOk(f, result) ==
    /\ ~EffectsPending
    /\ f \in finalInflight
    /\ finalInflight' = finalInflight \ {f}
    /\ pendingReport' = Absent
    /\ IF Mounted(f)
       THEN finalResult' = result /\ evaluating' = FALSE
       ELSE UNCHANGED <<finalResult, evaluating>>
    /\ reported' = IF result = "report" THEN reported \cup {f.session} ELSE reported
    /\ UNCHANGED <<now, server, startedWith, storageFull>>
    /\ UNCHANGED <<hookVars, questionVars, schedVars, permVars, appVars>>

\* evaluateFinal threw: network error, a status that is not 2xx, or a body
\* that is not JSON
FinalFail(f) ==
    /\ ~EffectsPending
    /\ f \in finalInflight
    /\ finalInflight' = finalInflight \ {f}
    /\ IF Mounted(f)
       THEN finalResult' = "error" /\ evaluating' = FALSE
       ELSE UNCHANGED <<finalResult, evaluating>>
    /\ UNCHANGED <<pendingReport>>
    /\ UNCHANGED <<hookVars, questionVars, schedVars, permVars, auxVars, appVars>>

Next ==
    \/ StartClick
    \/ \E kind \in SessionFailures, src \in SessionSources : StartFail(kind, src)
    \/ \E s \in SockIds, src \in SessionSources : StartSocket(s, src)
    \/ \E s \in SockIds : WsOpen(s)
    \/ \E s \in SockIds, o \in Orders, x \in Texts : WsMessage(s, o, x)
    \/ \E s \in SockIds : WsError(s)
    \/ \E s \in SockIds : WsClose(s)
    \/ \E list \in RubricLists : RubricLoaded(list)
    \/ RubricFailed
    \/ FlushEffects
    \/ Tick
    \/ \E r \in partialInflight, result \in ApiResults : PartialOk(r, result)
    \/ \E r \in partialInflight : PartialFail(r)
    \/ EndInterviewClick
    \/ RetryFinalClick
    \/ \E f \in finalInflight, result \in FinalResults : FinalOk(f, result)
    \/ \E f \in finalInflight : FinalFail(f)

Spec == Init /\ [][Next]_vars

(***************************************************************************)
(* Reconciliation: a connected session whose question lists and turn texts *)
(* cover the cases of the heuristic and of the cap                         *)
(***************************************************************************)
\* a 2xx answer of /api/evaluate with eleven suggested questions
LongResult ==
    [current_impression |-> Present("steady"), partial_scores |-> Present(<<"s3">>),
     sq_kind |-> "array",
     sq_items |-> <<ObjectItem(Question2, TRUE), StringItem(Question1),
                    ObjectItem(QuestionPair, FALSE), ObjectItem(QuestionOne, TRUE),
                    StringItem(QuestionNone), ObjectItem(QuestionWide, FALSE),
                    ObjectItem(QuestionFew, TRUE), StringItem(Question2),
                    ObjectItem(Question1, FALSE), ObjectItem(QuestionPair, TRUE),
                    ObjectItem(QuestionOne, FALSE)>>]

\* a 2xx answer of /api/evaluate whose suggested_questions is []
EmptyListResult ==
    [current_impression |-> Present("strong"), partial_scores |-> Present(<<"s5">>),
     sq_kind |-> "array", sq_items |-> <<>>]

ReconResults == ApiResults \cup {LongResult, EmptyListResult}

\* an answer of /api/rubric-sample-questions with eleven questions
LongRubric ==
    LET qs == <<Question1, Question2, QuestionWide, QuestionFew, QuestionPair,
                QuestionOne, QuestionNone, Question2, Question1, QuestionOne,
                QuestionPair>>
    IN  [i \in 1..Len(qs) |-> [question |-> qs[i], already_asked |-> FALSE]]

ReconRubricLists == RubricLists \cup {LongRubric}

InitRecon ==
    /\ InitConnected
    /\ started = TRUE
    /\ recoveryData = Absent
    /\ inst = 1
    /\ selectedRole = "vp-sales"
    /\ script = {}
    /\ pending = {}
    /\ now = 0
    /\ server = ServerIdle
    /\ storageFull = FALSE
    /\ startedWith = NULL
    /\ reported = {}

NextRecon ==
    \/ \E o \in Orders, x \in ReconTexts : WsMessage(1, o, x)
    \/ \E list \in ReconRubricLists : RubricLoaded(list)
    \/ RubricFailed
    \/ FlushEffects
    \/ Tick
    \/ \E r \in partialInflight, result \in ReconResults : PartialOk(r, result)
    \/ \E r \in partialInflight : PartialFail(r)

SpecRecon == InitRecon /\ [][NextRecon]_vars

(***************************************************************************)
(* App: home screen, recovery, and the report of an ended session          *)
(***************************************************************************)
\* the Interview component is unmounted, or the page is left: the state of
\* the component and of its hook is discarded (a mount starts from the
\* initial values), and the handlers of its sockets no longer reach any state
ResetInterview ==
    /\ turnsMap' = EmptyMap
    /\ turns' = <<>>
    /\ transcript' = <<>>
    /\ isConnected' = FALSE
    /\ isStarting' = FALSE
    /\ error' = NULL
    /\ wsRef' = 0
    /\ socks' = [s \in SockIds |-> IF socks[s] = "unused" THEN "unused" ELSE "closed"]
    /\ startPc' = "idle"
    /\ held' = {}
    /\ queueRef' = <<>>
    /\ worklets' = {}
    /\ graphRef' = 0
    /\ finalResult' = NULL
    /\ evaluating' = FALSE
    /\ rubricQuestions' = <<>>
    /\ rubricQuestionsLoading' = TRUE
    /\ suggestedQuestionsFromApi' = <<>>
    /\ questionsLoading' = FALSE
    /\ partialResult' = Absent
    /\ partialIntervalRef' = FALSE
    /\ effectDeps' = <<FALSE, FALSE>>
    /\ partialInflight' = {}
    /\ issued' = 0
    /\ lastApplied' = 0

\* a valid address typed into the recipient field of the home screen
HomeEmail == "hr@example.com"

\* what Home passes to onStart: validateAndGetEmail() gives null for an
\* empty field and the trimmed address for a valid one
StartArgs == {NULL, HomeEmail}

\* Home: Start is clicked, handleStart(roleId) receives the argument of
\* onStart and mounts the Interview for a live session
HomeStart(roleId) ==
    /\ ~started
    /\ inst < MaxMounts
    /\ selectedRole' = IF roleId = NULL THEN "vp-sales" ELSE roleId
    /\ recoveryData' = Absent
    /\ started' = TRUE
    /\ inst' = inst + 1
    /\ startedWith' = roleId
    /\ UNCHANGED <<now, server, reported, storageFull>>
    /\ UNCHANGED <<hookVars, questionVars, schedVars, finalVars, permVars>>

\* Home: the recovery banner is shown and accepted, handleRecoveryStart; the
\* Interview mounts in recovery mode and its scheduler effect returns at once
RecoveryStart ==
    /\ ~started
    /\ recoveryData # Absent
    /\ inst < MaxMounts
    /\ started' = TRUE
    /\ inst' = inst + 1
    /\ effectDeps' = <<FALSE, EnoughIn(recoveryData[1].transcript)>>
    /\ UNCHANGED <<recoveryData, selectedRole>>
    /\ UNCHANGED <<questionsLoading, partialIntervalRef, partialInflight, issued, lastApplied>>
    /\ UNCHANGED <<hookVars, questionVars, finalVars, permVars, auxVars>>

\* Home: the recovery banner is dismissed, handleRecoveryClear
RecoveryClear ==
    /\ ~started
    /\ recoveryData # Absent
    /\ pendingReport' = Absent
    /\ recoveryData' = Absent
    /\ UNCHANGED <<started, inst, selectedRole, finalResult, evaluating, finalInflight>>
    /\ UNCHANGED <<hookVars, questionVars, schedVars, permVars, auxVars>>

\* click on "Back to home" (final view, or recovery view): handleEnd
BackToHome ==
    /\ ~EffectsPending
    /\ started
    /\ showFinal \/ isRecoveryMode
    /\ started' = FALSE
    /\ recoveryData' = IF getPendingReport # Absent THEN getPendingReport ELSE recoveryData
    /\ pendingReport' = StorageAfterGet(pendingReport, now)
    /\ ResetInterview
    /\ UNCHANGED <<leaked, frames, captured>>
    /\ UNCHANGED <<inst, selectedRole, finalInflight, permVars, auxVars>>

\* click on "Generate report" of the recovery view
GenerateReportClick ==
    /\ started /\ isRecoveryMode
    /\ ~showFinal /\ ~evaluating
    /\ runFinalEvaluation
    /\ UNCHANGED <<hookVars, questionVars, schedVars, permVars, auxVars, appVars>>

\* the page is reloaded: the requests in flight are abandoned, the App
\* mounts again and its effect reads the snapshot
Reload ==
    /\ started \/ finalInflight # {} \/ recoveryData # getPendingReport
    /\ started' = FALSE
    /\ recoveryData' = getPendingReport
    /\ pendingReport' = StorageAfterGet(pendingReport, now)
    /\ finalInflight' = {}
    /\ ResetInterview
    /\ leaked' = {}
    /\ UNCHANGED <<frames, captured>>
    /\ UNCHANGED <<inst, selectedRole, permVars, auxVars>>

\* time passes: by a millisecond after a whole number of retention windows,
\* or by one retention window
Elapse(d) ==
    /\ d \in {1, PendingMaxAgeMs}
    /\ d = 1 => now % PendingMaxAgeMs = 0
    /\ now + d <= MaxDays * PendingMaxAgeMs + 1
    /\ now' = now + d
    /\ UNCHANGED <<server, startedWith, reported, storageFull>>
    /\ UNCHANGED <<hookVars, questionVars, schedVars, finalVars, appVars, permVars>>

\* the quota of localStorage is used up, by this or by another page of the
\* origin, or space is freed
StorageChanges ==
    /\ storageFull' = ~storageFull
    /\ UNCHANGED <<now, server, startedWith, reported>>
    /\ UNCHANGED <<hookVars, questionVars, schedVars, finalVars, appVars, permVars>>

\* " " (1 character)
TextBlank ==
    <<" ">>

\* texts of the Turn messages of the sessions of SpecReport
ReportTexts == {TextBlank, TextShort, TextAsk}

\* the App has mounted and shows the home screen; nothing is stored
InitReport ==
    /\ InitSession
    /\ started = FALSE
    /\ recoveryData = Absent
    /\ inst = 0
    /\ selectedRole = "vp-sales"
    /\ script = {}
    /\ pending = {}
    /\ now = 0
    /\ server = ServerIdle
    /\ storageFull = FALSE
    /\ startedWith = NULL
    /\ reported = {}

NextReport ==
    \/ \E roleId \in StartArgs : HomeStart(roleId)
    \/ RecoveryStart
    \/ RecoveryClear
    \/ BackToHome
    \/ Reload
    \/ \E d \in {1, PendingMaxAgeMs} : Elapse(d)
    \/ StartClick
    \/ \E kind \in SessionFailures, src \in SessionSources : StartFail(kind, src)
    \/ \E s \in SockIds, src \in SessionSources : StartSocket(s, src)
    \/ \E s \in SockIds : WsOpen(s)
    \/ \E s \in SockIds, o \in Orders, x \in ReportTexts : WsMessage(s, o, x)
    \/ \E s \in SockIds : WsError(s)
    \/ \E s \in SockIds : WsClose(s)
    \/ FlushEffects
    \/ EndInterviewClick
    \/ RetryFinalClick
    \/ GenerateReportClick
    \/ \E f \in finalInflight, result \in FinalResults : FinalOk(f, result)
    \/ \E f \in finalInflight : FinalFail(f)

SpecReport == InitReport /\ [][NextReport]_vars

(***************************************************************************)
(* The final-evaluation endpoint: requests with transcripts around the     *)
(* size limit, with and without a recipient, and the outcomes of the       *)
(* scoring call and of the mail delivery                                   *)
(***************************************************************************)
\* a text of n characters without a period shorter than three
Filler(n) == [i \in 1..n |-> <<"a", "b", " ">>[(i % 3) + 1]]

\* transcripts of the requests: empty, short, and of the limit and more
ServerTexts ==
    {<<>>, TextAsk} \cup {Filler(MAX_TRANSCRIPT_CHARS + k) : k \in 0..MaxExcess}

\* "hr@example.com"
EmailValid ==
    <<"h", "r", "@", "e", "x", "a", "m", "p", "l", "e", ".", "c", "o", "m">>

\* " hr@example.com "
EmailPadded == <<" ">> \o EmailValid \o <<" ">>

\* "hr@example"
EmailNoDot == SubSeq(EmailValid, 1, 10)

\* the JSON bodies received
Bodies ==
    [transcript : {Missing, NotString} \cup {Str(t) : t \in ServerTexts},
     turns : {<<>>},
     email : {Missing, NotString, Str(EmailValid)},
     recipientEmail : {Missing, Str(EmailPadded), Str(EmailNoDot)}]

\* evaluateFinal(req, res) up to the await of grokChat
Receive(body) ==
    /\ server.pc = "idle"
    /\ server' =
           IF body.transcript.type # "string"
           THEN ServerState("done", body, Absent, <<>>, 0, Absent, Absent,
                            Response(400, Absent, FALSE, Absent,
                                     Present(<<"transcript must be a string">>)))
           ELSE ServerState("scoring", body, getValidEmail(body),
                            TranscriptForEval(body.transcript.value), 1,
                            Absent, Absent, NoResponse)
    /\ UNCHANGED <<now, startedWith, reported, storageFull>>
    /\ UNCHANGED <<hookVars, questionVars, schedVars, finalVars, appVars, permVars>>

\* "(No speech transcribed yet.)"
NoSpeech == <<"(", "N", "o", " ", "s", "p", "e", "e", "c", "h", " ", "t", "r", "a", "n", "s",
              "c", "r", "i", "b", "e", "d", " ", "y", "e", "t", ".", ")">>

\* evaluatePartial(req, res) up to the await of grokChat
ReceivePartial(body) ==
    /\ server.pc = "idle"
    /\ server' =
           [(IF body.transcript.type # "string"
             THEN ServerState("done", body, Absent, <<>>, 0, Absent, Absent,
                              Response(400, Absent, FALSE, Absent,
                                       Present(<<"transcript must be a string">>)))
             ELSE ServerState("scoring", body, Absent,
                              IF body.transcript.value # <<>>
                              THEN body.transcript.value ELSE NoSpeech,
                              1, Absent, Absent, NoResponse))
            EXCEPT !.endpoint = "partial"]
    /\ UNCHANGED <<now, startedWith, reported, storageFull>>
    /\ UNCHANGED <<hookVars, questionVars, schedVars, finalVars, appVars, permVars>>

\* grokChat throws: the scoring backend answered with a status that is not
\* 2xx, and the catch block of the handler answers
GrokFails(err) ==
    /\ server.pc = "scoring"
    /\ server' = [server EXCEPT
           !.pc = "done",
           !.fault = "transport",
           !.response = CatchResponse(err, Fallback(server.endpoint))]
    /\ UNCHANGED <<now, startedWith, reported, storageFull>>
    /\ UNCHANGED <<hookVars, questionVars, schedVars, finalVars, appVars, permVars>>

\* grokChat resolves with the content raw: the content is tested and
\* extracted. evaluateFinal catches the error of extractJson itself and
\* sends the report when the request named a recipient; in evaluatePartial
\* the error of extractJson reaches the catch block of the handler. pos is
\* the position JSON.parse names when it throws
GrokAnswers(raw, pos) ==
    /\ server.pc = "scoring"
    /\ server' =
           IF raw = <<>>
           THEN [server EXCEPT
                    !.pc = "done",
                    !.raw = Present(raw),
                    !.fault = "empty",
                    !.response = Response(500, Absent, FALSE, Absent,
                                          Present(<<"Empty Grok response">>))]
           ELSE IF extractJson(raw) = Absent
           THEN [server EXCEPT
                    !.pc = "done",
                    !.raw = Present(raw),
                    !.fault = "parse",
                    !.response =
                        IF server.endpoint = "partial"
                        THEN CatchResponse(SyntaxError(pos), Fallback("partial"))
                        ELSE Response(500, Absent, FALSE, Absent,
                                      Present(<<"Invalid evaluation format from AI">>))]
           ELSE IF server.endpoint = "final" /\ server.toEmail # Absent
           THEN [server EXCEPT !.pc = "mailing", !.raw = Present(raw),
                               !.parsed = extractJson(raw)]
           ELSE [server EXCEPT
                    !.pc = "done",
                    !.raw = Present(raw),
                    !.parsed = extractJson(raw),
                    !.response = Response(200, extractJson(raw), FALSE, Absent, Absent)]
    /\ UNCHANGED <<now, startedWith, reported, storageFull>>
    /\ UNCHANGED <<hookVars, questionVars, schedVars, finalVars, appVars, permVars>>

\* variant: an error thrown by sendEvaluationEmail reaches the outer catch
MailDoneUncaught(outcome) ==
    /\ server.pc = "mailing"
    /\ server' = [server EXCEPT
           !.pc = "done",
           !.mail = Present(outcome),
           !.response =
               IF outcome.kind = "true"
               THEN Response(200, server.parsed, TRUE, Absent, Absent)
               ELSE IF outcome.kind = "false"
               THEN Response(200, server.parsed, FALSE,
                             Present("Resend not configured or send failed"), Absent)
               ELSE Response(500, Absent, FALSE, Absent,
                             Present(IF outcome.message = ""
                                     THEN Fallback("final") ELSE <<outcome.message>>))]
    /\ UNCHANGED <<now, startedWith, reported, storageFull>>
    /\ UNCHANGED <<hookVars, questionVars, schedVars, finalVars, appVars, permVars>>

\* sendEvaluationEmail settles and the handler answers
MailDone(outcome) ==
    /\ server.pc = "mailing"
    /\ server' = [server EXCEPT
           !.pc = "done",
           !.mail = Present(outcome),
           !.response =
               IF outcome.kind = "true"
               THEN Response(200, server.parsed, TRUE, Absent, Absent)
               ELSE IF outcome.kind = "false"
               THEN Response(200, server.parsed, FALSE,
                             Present("Resend not configured or send failed"), Absent)
               ELSE Response(200, server.parsed, FALSE,
                             Present(IF outcome.message = ""
                                     THEN "Failed to send email" ELSE outcome.message),
                             Absent)]
    /\ UNCHANGED <<now, startedWith, reported, storageFull>>
    /\ UNCHANGED <<hookVars, questionVars, schedVars, finalVars, appVars, permVars>>

\* the answer was sent; the server takes the next request
Answered ==
    /\ server.pc = "done"
    /\ server' = ServerIdle
    /\ UNCHANGED <<now, startedWith, reported, storageFull>>
    /\ UNCHANGED <<hookVars, questionVars, schedVars, finalVars, appVars, permVars>>

InitServer == InitReport

NextServer ==
    \/ \E body \in Bodies : Receive(body)
    \/ \E err \in TransportErrors : GrokFails(err)
    \/ \E raw \in RawAnswers, pos \in ErrorPositions : GrokAnswers(raw, pos)
    \/ \E outcome \in MailOutcomes : MailDone(outcome)
    \/ Answered

SpecServer == InitServer /\ [][NextServer]_vars

(***************************************************************************)
(* Scoring: both evaluation endpoints, with every JSON payload of a        *)
(* bounded length, bare and inside a code fence, texts that are not JSON,  *)
(* and the failures of the scoring backend                                 *)
(***************************************************************************)
\* the texts of at most n symbols
RECURSIVE TextsUpTo(_)
TextsUpTo(n) ==
    IF n = 0 THEN {<<>>}
    ELSE TextsUpTo(n - 1) \cup
             {Append(t, c) : t \in {u \in TextsUpTo(n - 1) : Len(u) = n - 1}, c \in RawSymbols}

\* the JSON payloads of at most MaxPayload symbols
Payloads == {t \in TextsUpTo(MaxPayload) : IsJsonText(t)}

\* what grokChat resolves with
ScoringTexts ==
    Payloads \cup {Fenced(t) : t \in Payloads} \cup {<<>>, <<" ">>, Prose, Fenced(Prose)}

\* the JSON bodies received
ScoringBodies ==
    [transcript : {NotString, Str(<<>>), Str(TextAsk)},
     turns : {<<>>},
     email : {Missing},
     recipientEmail : {Missing}]

NextScoring ==
    \/ \E body \in ScoringBodies : Receive(body)
    \/ \E body \in ScoringBodies : ReceivePartial(body)
    \/ \E err \in TransportErrors : GrokFails(err)
    \/ \E raw \in ScoringTexts, pos \in ErrorPositions : GrokAnswers(raw, pos)
    \/ Answered

SpecScoring == InitServer /\ [][NextScoring]_vars

(***************************************************************************)
(* Capture: one mounted Interview started with every audio source, every   *)
(* failure of start(), disconnects and new starts, up to End Interview     *)
(***************************************************************************)
NextCapture ==
    \/ StartClick
    \/ \E kind \in StartFailures, src \in AudioSources : StartFail(kind, src)
    \/ \E s \in SockIds, src \in AudioSources : StartSocket(s, src)
    \/ \E s \in SockIds : WsOpen(s)
    \/ \E s \in SockIds, o \in Orders : WsMessage(s, o, TextShort)
    \/ \E s \in SockIds : WsError(s)
    \/ \E s \in SockIds : WsClose(s)
    \/ FlushEffects
    \/ EndInterviewClick
    \/ RetryFinalClick
    \/ \E f \in finalInflight, result \in FinalResults : FinalOk(f, result)
    \/ \E f \in finalInflight : FinalFail(f)

SpecCapture == Init /\ [][NextCapture]_vars

(***************************************************************************)
(* Audio: the chunks of the worklets are accumulated and handed to the     *)
(* socket, across a disconnect and a new start                             *)
(***************************************************************************)
NextAudio ==
    \/ StartClick
    \/ \E s \in SockIds, src \in SessionSources : StartSocket(s, src)
    \/ \E s \in SockIds : WsOpen(s)
    \/ \E s \in SockIds : WsError(s)
    \/ \E w \in SockIds : AudioChunk(w)
    \/ FlushEffects
    \/ EndInterviewClick

SpecAudio == Init /\ [][NextAudio]_vars

(***************************************************************************)
(* Storage: one mounted Interview of a live session up to its report,      *)
(* with a localStorage that can refuse to store the snapshot               *)
(***************************************************************************)
NextStorage ==
    \/ StorageChanges
    \/ StartClick
    \/ \E s \in SockIds, src \in SessionSources : StartSocket(s, src)
    \/ \E s \in SockIds : WsOpen(s)
    \/ \E s \in SockIds, o \in Orders, x \in ReportTexts : WsMessage(s, o, x)
    \/ \E s \in SockIds : WsError(s)
    \/ FlushEffects
    \/ EndInterviewClick
    \/ RetryFinalClick
    \/ \E f \in finalInflight, result \in FinalResults : FinalOk(f, result)
    \/ \E f \in finalInflight : FinalFail(f)

SpecStorage == Init /\ [][NextStorage]_vars

(***************************************************************************)
(* Scripts: a fixed set of Turn messages, possibly several for one order,  *)
(* is delivered to ws.onmessage of an open socket in an arbitrary order    *)
(***************************************************************************)
TurnMessages == [turn_order : PermOrders, transcript : PermTexts]

Scripts == {S \in SUBSET TurnMessages : Cardinality(S) <= MaxScript}

InitPerm ==
    /\ script \in Scripts
    /\ pending = script
    /\ InitConnected
    /\ started = TRUE
    /\ recoveryData = Absent
    /\ inst = 1
    /\ selectedRole = "vp-sales"
    /\ now = 0
    /\ server = ServerIdle
    /\ storageFull = FALSE
    /\ startedWith = NULL
    /\ reported = {}

Deliver(m) ==
    /\ m \in pending
    /\ OnMessage(1, m.turn_order, m.transcript)
    /\ pending' = pending \ {m}
    /\ UNCHANGED <<script, auxVars>>

NextPerm ==
    \/ \E m \in TurnMessages : Deliver(m)
    \/ FlushEffects

SpecPerm == InitPerm /\ [][NextPerm]_vars

(***************************************************************************)
(* Properties                                                              *)
(***************************************************************************)
\* the messages of the script delivered so far
Delivered == script \ pending

\* no two messages of a set have the same order
UniqueOrders(S) == \A m, n \in S : m.turn_order = n.turn_order => m = n

RECURSIVE FeedAscending(_, _)
FeedAscending(map, S) ==
    IF S = {} THEN map
    ELSE LET m == CHOOSE n \in S : \A k \in S : n.turn_order <= k.turn_order
         IN  FeedAscending(ApplyTurn(map, m.turn_order, m.transcript), S \ {m})

\* C1: whatever the arrival order of a fixed set of Turn messages with
\* unique orders, the turns list and the transcript are those obtained by
\* feeding the same messages in ascending order.
PermutationInvariance ==
    UniqueOrders(Delivered)
    => LET ref == OrderedTurns(FeedAscending(EmptyMap, Delivered))
       IN  turns = ref /\ transcript = Join(ref)

\* two higher orders arrived, with different texts, before the lowest one
PermutationWitness ==
    /\ UniqueOrders(script)
    /\ Cardinality(script) = 3
    /\ \E lo \in pending :
          /\ pending = {lo}
          /\ \A m \in Delivered : lo.turn_order < m.turn_order
    /\ Cardinality({m.transcript : m \in Delivered}) = 2
    /\ Len(turns) = 2

\* position of an order among the orders held by the map
Rank(map, order) == Cardinality({k \in DOMAIN map : k <= order})

\* C2: a Turn for an order that already has an entry replaces the text at
\* that position and appends nothing; a Turn identical to the entry held
\* leaves the turns list and the transcript unchanged.
TurnOverwrite ==
    [][\A m \in TurnMessages :
          (Deliver(m) /\ m.turn_order \in DOMAIN turnsMap)
          => LET at == Rank(turnsMap, m.turn_order)
             IN  /\ Len(turns') = Len(turns)
                 /\ turns'[at] = m.transcript
                 /\ \A i \in 1..Len(turns) : i # at => turns'[i] = turns[i]
                 /\ (turnsMap[m.turn_order] = m.transcript
                       => turns' = turns /\ transcript' = transcript)]_vars

\* two messages with the same order and different texts have been delivered,
\* between two other orders
TurnOverwriteWitness ==
    /\ \E m, n \in Delivered : m.turn_order = n.turn_order /\ m.transcript # n.transcript
    /\ Len(turns) = 3

\* C3: the exposed transcript and turns list are always those derived from
\* the current order-to-text map.
TranscriptDerived ==
    /\ turns = OrderedTurns(turnsMap)
    /\ transcript = Join(OrderedTurns(turnsMap))

\* C4: at most one partial-evaluation request is in flight.
SingleFlight == Cardinality(partialInflight) <= 1

\* a step that issues a partial-evaluation request
IssuesRequest == issued' # issued

\* the scheduler effect starts: connected, with enough transcript
EffectStarts == FlushEffects /\ isConnected /\ hasEnoughTranscript

\* C5 as stated: no request below the threshold, and only the first request
\* of a session is issued immediately by the effect; all later ones by a tick.
ImmediateRequestOnlyOnce ==
    [][IssuesRequest
       => /\ Len(transcript) >= MIN_TRANSCRIPT_FOR_QUESTIONS
          /\ issued' = issued + 1
          /\ IF issued = 0 THEN EffectStarts ELSE Tick]_vars

\* C5 amended: no request is issued below the threshold; every start of the
\* scheduler effect issues exactly one request immediately; every other
\* request is issued by an interval tick.
ImmediateRequestOnEveryStart ==
    [][/\ IssuesRequest
          => /\ Len(transcript) >= MIN_TRANSCRIPT_FOR_QUESTIONS
             /\ issued' = issued + 1
             /\ (EffectStarts \/ Tick)
       /\ EffectStarts => issued' = issued + 1]_vars

\* the second socket is open and the effect has started again on it
ImmediateRequestWitness ==
    /\ socks[2] = "open"
    /\ isConnected /\ hasEnoughTranscript /\ ~EffectsPending
    /\ partialIntervalRef
    /\ issued = 2

\* a step in which a partial-evaluation request ends without being applied
RequestFails ==
    /\ partialInflight' # partialInflight
    /\ partialInflight' \subseteq partialInflight
    /\ lastApplied' = lastApplied

\* C6: a failed partial-evaluation request changes neither the live
\* evaluation, nor the question list, nor the session phase, nor the
\* connection state, and leaves the interval timer as it was.
FailureLeavesStateUnchanged ==
    [][RequestFails
       => /\ partialResult' = partialResult
          /\ suggestedQuestionsFromApi' = suggestedQuestionsFromApi
          /\ rubricQuestions' = rubricQuestions
          /\ finalResult' = finalResult
          /\ evaluating' = evaluating
          /\ isConnected' = isConnected
          /\ partialIntervalRef' = partialIntervalRef]_vars

\* the first response was applied and the second request ended without being
\* applied, on a connected session whose timer is armed
FailureWitness ==
    /\ issued = 2
    /\ lastApplied = 1
    /\ partialInflight = {}
    /\ partialResult # Absent
    /\ partialIntervalRef
    /\ isConnected

\* the session has been stopped: end-of-interview signalled, or disconnected
Stopped == evaluating \/ showFinal \/ ~isConnected

\* C7: a partial-evaluation response arriving after the session has been
\* stopped changes neither the live evaluation nor the question list.
LateResponseDiscarded ==
    [][Stopped
       => /\ partialResult' = partialResult
          /\ suggestedQuestionsFromApi' = suggestedQuestionsFromApi]_vars

\* C8: no partial-evaluation request is issued once the session has been
\* stopped.
NoRequestAfterStop ==
    [][Stopped => ~IssuesRequest]_vars

\* C9: responses are applied in the order their requests were issued.
AppliedInIssueOrder ==
    [][lastApplied' >= lastApplied]_vars

\* a question is in a presented list with the given already_asked
AskedIn(list, q, asked) ==
    \E i \in 1..Len(list) : list[i].question = q /\ list[i].already_asked = asked

\* C10: a question presented as asked is not presented as not asked by the
\* next presentation.
PromotionMonotone ==
    [][\A q \in Questions :
          (QuestionsShown /\ AskedIn(PresentedQuestions, q, TRUE))
          => ~(/\ ShownIn(finalResult', rubricQuestionsLoading', rubricQuestions')
               /\ AskedIn(PresentedOf(suggestedQuestionsFromApi', rubricQuestions',
                                      transcript'), q, FALSE))]_vars

\* the flag the scoring backend sent with an item of suggested_questions
BackendFlag(item) == item.kind = "object" /\ item.already_asked

Min(a, b) == IF a < b THEN a ELSE b

\* every entry of a presented list carries the flag of the same entry of its
\* source list, or the verdict of the heuristic on the transcript
FlagIsBackendOrHeuristic(presented, source, text) ==
    \A i \in 1..Len(presented) :
        presented[i].already_asked
            = (source[i].already_asked
               \/ questionAskedInTranscript(source[i].question, text))

\* C11: in every reconciliation pass the presented already_asked of a
\* question is (flag of the backend in the source list) or (heuristic on the
\* transcript); a question the backend sent as asked is presented as asked
\* whatever the transcript is.
ReconciliationFlag ==
    [][/\ FlagIsBackendOrHeuristic(
              PresentedOf(suggestedQuestionsFromApi', rubricQuestions', transcript'),
              SourceOf(suggestedQuestionsFromApi', rubricQuestions'), transcript')
       /\ \A r \in partialInflight, result \in ReconResults :
             (PartialOk(r, result) /\ result.sq_kind = "array" /\ result.sq_items # <<>>)
             => LET p == PresentedOf(suggestedQuestionsFromApi', rubricQuestions',
                                     transcript')
                IN  \A i \in 1..Len(p) :
                        /\ p[i].question = result.sq_items[i].question
                        /\ BackendFlag(result.sq_items[i]) => p[i].already_asked]_vars

\* the list of the backend is presented: one entry is asked by the flag of
\* the backend alone, another by the heuristic alone
ReconciliationFlagWitness ==
    /\ QuestionsShown
    /\ suggestedQuestionsFromApi # <<>>
    /\ \E i, j \in 1..Len(PresentedQuestions) :
          /\ suggestedQuestionsFromApi[i].already_asked
          /\ ~questionAskedInTranscript(suggestedQuestionsFromApi[i].question, transcript)
          /\ PresentedQuestions[i].already_asked
          /\ ~suggestedQuestionsFromApi[j].already_asked
          /\ questionAskedInTranscript(suggestedQuestionsFromApi[j].question, transcript)
          /\ PresentedQuestions[j].already_asked

\* a presented list is the source list cut to the maximum length
IsCappedPrefix(presented, source) ==
    /\ Len(presented) <= MaxPresented
    /\ Len(presented) = Min(Len(source), MaxPresented)
    /\ \A i \in 1..Len(presented) : presented[i].question = source[i].question

\* C12: the presented list has at most 10 entries and is an order-preserving
\* prefix of its source: the list of the partial evaluation applied last, or
\* the rubric list.
PresentedPrefix ==
    [][/\ IsCappedPrefix(
              PresentedOf(suggestedQuestionsFromApi', rubricQuestions', transcript'),
              IF suggestedQuestionsFromApi' # <<>> THEN suggestedQuestionsFromApi'
              ELSE rubricQuestions')
       /\ \A r \in partialInflight, result \in ReconResults :
             (PartialOk(r, result) /\ result.sq_kind = "array" /\ result.sq_items # <<>>)
             => IsCappedPrefix(
                    PresentedOf(suggestedQuestionsFromApi', rubricQuestions', transcript'),
                    result.sq_items)]_vars

\* a source of eleven questions is presented as its first ten: the rubric
\* list, and the list of a partial evaluation
PresentedPrefixWitness ==
    /\ QuestionsShown
    /\ Len(PresentedQuestions) = MaxPresented
    /\ \/ (suggestedQuestionsFromApi = <<>> /\ Len(rubricQuestions) > MaxPresented)
       \/ (/\ suggestedQuestionsFromApi # <<>>
           /\ PresentedQuestions[2].question = LongResult.sq_items[2].question
           /\ PresentedQuestions[10].question = LongResult.sq_items[10].question)

\* a text without the characters ? ! . in lower case, without the spaces
\* at its ends
Normalized(s) ==
    LET kept == SelectSeq(s, LAMBDA c : c # "?" /\ c # "!" /\ c # ".")
        low == ToLowerCase(kept)
        inner == {i \in 1..Len(low) : low[i] # " "}
    IN  IF inner = {} THEN <<>>
        ELSE SubSeq(low, CHOOSE i \in inner : \A k \in inner : i <= k,
                         CHOOSE j \in inner : \A k \in inner : k <= j)

\* the places <<first, last>> of the significant words of a normalized
\* question: maximal runs without a space, longer than two characters, that
\* are no stop word
SignificantWords(nq) ==
    {w \in (1..Len(nq)) \X (1..Len(nq)) :
        /\ w[1] <= w[2]
        /\ \A k \in w[1]..w[2] : nq[k] # " "
        /\ (w[1] = 1 \/ nq[w[1] - 1] = " ")
        /\ (w[2] = Len(nq) \/ nq[w[2] + 1] = " ")
        /\ w[2] - w[1] + 1 > 2
        /\ SubSeq(nq, w[1], w[2]) \notin stopWords}

\* the significant words that occur in a text
MatchingWords(nq, nt) ==
    {w \in SignificantWords(nq) : Includes(nt, SubSeq(nq, w[1], w[2]))}

\* m of n words reach the minimum count and the minimum fraction (35%)
EnoughWords(m, n) == m >= Min(MinMatchCount, n) /\ 20 * m >= 7 * n

\* the rule as the claim states it: question and transcript normalized the
\* same way, any transcript length, any number of significant words
AskedAsClaimed(question, text) ==
    LET nq == Normalized(question)
        nt == Normalized(text)
    IN  IF Len(nq) < ShortQuestionLen THEN Includes(nt, nq)
        ELSE EnoughWords(Cardinality(MatchingWords(nq, nt)),
                         Cardinality(SignificantWords(nq)))

AskedAsAmended(question, text) ==
    LET nq == Normalized(question)
        nt == ToLowerCase(text)
        n == Cardinality(SignificantWords(nq))
    IN  IF Len(text) < MinHeuristicTranscript THEN FALSE
        ELSE IF Len(nq) < ShortQuestionLen THEN Includes(nt, nq)
        ELSE IF n < 2 THEN Includes(nt, SubSeq(nq, 1, Min(PrefixLen, Len(nq))))
        ELSE EnoughWords(Cardinality(MatchingWords(nq, nt)), n)

QuestionsOf(list) == [i \in 1..Len(list) |-> list[i].question]

\* C14: once a partial evaluation has been applied, the presented list is
\* that of the partial evaluation applied last, also when that list is
\* empty, and never the rubric list.
LatestPartialIsSource ==
    [][/\ \A r \in partialInflight, result \in ReconResults :
             (PartialOk(r, result) /\ result.sq_kind # "other")
             => IsCappedPrefix(
                    PresentedOf(suggestedQuestionsFromApi', rubricQuestions', transcript'),
                    result.sq_items)
       /\ (lastApplied # 0 /\ lastApplied' = lastApplied)
             => QuestionsOf(PresentedOf(suggestedQuestionsFromApi', rubricQuestions',
                                        transcript'))
                  = QuestionsOf(PresentedQuestions)]_vars

\* capture is stopped: the session is not connected and no socket is open
CaptureStopped(connected, ref, sockets) ==
    /\ ~connected
    /\ ref = 0
    /\ \A s \in SockIds : sockets[s] # "open"

\* a step persists the snapshot of the live session and issues exactly one
\* final-evaluation request, which carries the transcript and the turns
PersistsAndRequests ==
    /\ pendingReport' = Present(Snapshot(transcript, turns, recipientEmail, selectedRole, now, inst))
    /\ Cardinality(finalInflight' \ finalInflight) = 1
    /\ \A f \in finalInflight' \ finalInflight :
          f.transcript = transcript /\ f.turns = turns /\ f.role = selectedRole

Ended == evaluating \/ showFinal

OneFinalRequest == Cardinality(finalInflight) <= 1

\* C18: when a final-evaluation request succeeds the snapshot is removed and
\* the final evaluation is surfaced, and no snapshot is stored while the
\* evaluation is shown.
SuccessSurfacesAndClears ==
    [][/\ \A f \in finalInflight :
             FinalOk(f, "report")
             => (pendingReport' = Absent /\ started' /\ finalResult' = "report")
       /\ finalResult' = "report" => pendingReport' = Absent]_vars

\* a final evaluation has ended without a usable result: the retry
\* affordance is shown for a transcript that is not blank
Failed(final, rd, t) ==
    /\ final \in {"error", "empty"}
    /\ Trim(IF rd # Absent THEN rd[1].transcript ELSE t) # <<>>

\* C19: whenever a final evaluation ends without a usable result (error, or
\* a 2xx answer without evaluation data) the session shows the retry
\* affordance and the snapshot is still stored with its transcript, in every
\* interleaving.
FailureKeepsSnapshot ==
    [][/\ \A f \in finalInflight :
             (FinalFail(f) \/ FinalOk(f, "empty"))
             => /\ started' /\ finalResult' \in {"error", "empty"}
                /\ pendingReport' # Absent
                /\ pendingReport'[1].transcript = f.transcript
       /\ (started' /\ Failed(finalResult', recoveryData', transcript'))
             => pendingReport' # Absent]_vars

\* the transcript and the turns a component works with, for given values of
\* recoveryData and of the live state
ViewOf(rd, t, ts) ==
    IF rd # Absent THEN <<rd[1].transcript, rd[1].turns>> ELSE <<t, ts>>

StartupOffersFreshSnapshot ==
    [][/\ (Reload /\ pendingReport # Absent) =>
            LET age == now - pendingReport[1].savedAt
            IN  /\ age > PendingMaxAgeMs =>
                       recoveryData' = Absent /\ pendingReport' = Absent
                /\ age < PendingMaxAgeMs =>
                       recoveryData' = pendingReport /\ pendingReport' = pendingReport
       /\ RecoveryStart =>
            /\ started'
            /\ ViewOf(recoveryData', transcript', turns')
                   = <<recoveryData[1].transcript, recoveryData[1].turns>>
            /\ RecipientOf(recoveryData') = recoveryData[1].recipientEmail]_vars

\* a snapshot saved some time ago, and less than the retention window ago,
\* has been resumed and is still stored
StartupWitness ==
    /\ started /\ isRecoveryMode
    /\ finalResult = NULL /\ ~evaluating
    /\ pendingReport = recoveryData
    /\ now - recoveryData[1].savedAt > 0
    /\ now - recoveryData[1].savedAt < PendingMaxAgeMs

\* C22: a session resumed from a snapshot never captures (no start() runs,
\* no socket is referenced or alive, it is never connected), never issues a
\* partial-evaluation request, and every final-evaluation request of the
\* resumed component carries the transcript, the turns and the role of the
\* snapshot
ResumedBypassesLive ==
    (started /\ isRecoveryMode) =>
        /\ ~isConnected /\ ~isStarting /\ startPc = "idle"
        /\ wsRef = 0
        /\ \A s \in SockIds : socks[s] \in {"unused", "closed"}
        /\ issued = 0 /\ partialInflight = {} /\ ~partialIntervalRef
        /\ \A f \in finalInflight :
               f.inst = inst =>
                   /\ f.transcript = recoveryData[1].transcript
                   /\ f.turns = recoveryData[1].turns
                   /\ f.role = recoveryData[1].selectedRole

\* the resumed session has sent its final-evaluation request
ResumedWitness ==
    /\ started /\ isRecoveryMode /\ evaluating
    /\ \E f \in finalInflight : f.inst = inst /\ f.transcript = recoveryData[1].transcript

\* C23: once a final-evaluation request of a session (live or recovered) was
\* answered with a report, no final-evaluation request is issued for that
\* session any more
ReportedOnce ==
    [][\A f \in finalInflight' \ finalInflight : f.session \notin reported]_vars

\* the phase of the session a mounted Interview shows: Ending while the final
\* evaluation runs, Succeeded with a report, Failed with an error or with a
\* result without evaluation data (both offer Retry report), Recovered in
\* the recovery view before Generate report, Live once start() has created
\* its socket, Idle before
PhaseOf(ev, final, rd, ref) ==
    IF ev THEN "Ending"
    ELSE IF final = "report" THEN "Succeeded"
    ELSE IF final # NULL THEN "Failed"
    ELSE IF rd # Absent THEN "Recovered"
    ELSE IF ref # 0 THEN "Live"
    ELSE "Idle"

\* the transitions of the claim; a resumed session enters at Ending
PhaseSteps ==
    {<<"Idle", "Live">>, <<"Live", "Ending">>, <<"Ending", "Succeeded">>,
     <<"Ending", "Failed">>, <<"Failed", "Ending">>, <<"Recovered", "Ending">>}

\* the session in view, for given values of recoveryData and inst
SessionOf(rd, i) == IF rd # Absent THEN rd[1].session ELSE i

\* C24: while an Interview is mounted the phase of its session changes only
\* along Idle -> Live -> Ending -> (Succeeded | Failed) and Failed -> Ending
\* (a resumed session entering at Ending), and a session whose final
\* evaluation was answered with a report is in no other phase than Succeeded
\* whenever it is shown again
PhasesFollowChain ==
    [][/\ (started /\ started' /\ inst' = inst) =>
            LET before == PhaseOf(evaluating, finalResult, recoveryData, wsRef)
                after == PhaseOf(evaluating', finalResult', recoveryData', wsRef')
            IN  after = before \/ <<before, after>> \in PhaseSteps
       /\ (started' /\ SessionOf(recoveryData', inst') \in reported') =>
            PhaseOf(evaluating', finalResult', recoveryData', wsRef') = "Succeeded"]_vars

\* C25: the final-evaluation request of a live session that was started
\* with a recipient address carries that address, and so does the snapshot
\* stored with it, so that the report can be delivered to it
RecipientReachesRequest ==
    [][\A f \in finalInflight' \ finalInflight :
          (~isRecoveryMode /\ startedWith # NULL) =>
              /\ pendingReport' # Absent
              /\ pendingReport'[1].recipientEmail = startedWith
              /\ "recipientEmail" \in DOMAIN f
              /\ f.recipientEmail = startedWith]_vars

\* C26: when the scoring call and the extraction succeeded and the delivery
\* of the report failed (sendEvaluationEmail resolved with false or threw),
\* the endpoint answers 200 with the whole evaluation, emailSent false and
\* an emailError, and the scoring call was made once
DeliveryFailureKeepsEvaluation ==
    (server.pc = "done" /\ server.mail # Absent /\ server.mail[1].kind # "true") =>
        /\ server.parsed # Absent
        /\ server.response.status = 200
        /\ server.response.evaluation = server.parsed
        /\ server.response.emailSent = FALSE
        /\ server.response.emailError # Absent
        /\ server.response.error = Absent
        /\ server.calls = 1

\* sendEvaluationEmail threw and the handler has answered
DeliveryFailureWitness ==
    /\ server.pc = "done"
    /\ server.mail # Absent /\ server.mail[1].kind = "throws"
    /\ server.response.status = 200

\* the last n characters of a text
LastChars(text, n) == SubSeq(text, Len(text) - n + 1, Len(text))

EndsWith(text, suffix) ==
    /\ Len(text) >= Len(suffix)
    /\ LastChars(text, Len(suffix)) = suffix

\* C27: the transcript handed to the scoring model is the whole transcript
\* when it has at most MAX_TRANSCRIPT_CHARS characters, and otherwise its
\* last MAX_TRANSCRIPT_CHARS characters followed by the omission notice; it
\* ends with the notice exactly when the transcript was cut
TailWithNotice ==
    server.calls > 0 =>
        LET text == server.body.transcript.value
        IN  /\ Len(text) <= MAX_TRANSCRIPT_CHARS => server.prompt = text
            /\ Len(text) > MAX_TRANSCRIPT_CHARS =>
                   server.prompt = LastChars(text, MAX_TRANSCRIPT_CHARS) \o OmissionNotice
            /\ EndsWith(server.prompt, OmissionNotice) <=> Len(text) > MAX_TRANSCRIPT_CHARS

\* a transcript longer than the limit was handed over
TailWitness ==
    /\ server.calls > 0
    /\ Len(server.body.transcript.value) > MAX_TRANSCRIPT_CHARS
    /\ Len(server.prompt) = MAX_TRANSCRIPT_CHARS + Len(OmissionNotice)

\* C28: a step in which a socket that was connecting or open is closed by
\* the transport (error or close event) leaves isConnected false and the
\* transcript and the turns as they were
TransportErrorKeepsTranscript ==
    [][\A s \in SockIds :
          (socks[s] \in {"connecting", "open"} /\ socks'[s] = "closed") =>
              /\ isConnected' = FALSE
              /\ transcript' = transcript
              /\ turns' = turns]_vars

\* the connection of a session with a transcript was lost and the interview
\* has not been ended
TransportErrorWitness ==
    /\ wsRef # 0 /\ socks[wsRef] = "closed"
    /\ ~isConnected
    /\ transcript # <<>> /\ turns # <<>>
    /\ finalResult = NULL /\ ~evaluating

\* the failures of start() to acquire a requested source
AcquireFailures ==
    {"token", "noMediaDevices", "unsupported", "displayDenied", "noTabAudio", "micDenied"}

\* C29: a start attempt that fails to acquire a source ends with an error
\* recorded, isStarting and isConnected false, no socket and no audio
\* context created, and no start() running any more
AcquireFailureIsTerminal ==
    [][\A kind \in AcquireFailures, src \in AudioSources :
          StartFail(kind, src) =>
              /\ error' # NULL
              /\ isStarting' = FALSE
              /\ isConnected' = FALSE
              /\ socks' = socks /\ wsRef' = wsRef
              /\ "ctx" \in held' \cup leaked' => "ctx" \in held \cup leaked
              /\ startPc' = "idle"]_vars

\* C30: once the interview was ended no acquired stream or audio context is
\* live any more and no socket is open or connecting
EndReleasesEverything ==
    Ended =>
        /\ held = {} /\ leaked = {}
        /\ \A s \in SockIds : socks[s] \notin {"open", "connecting"}

\* the samples of a sequence of samples
SamplesOf(q) == {q[i] : i \in 1..Len(q)}

\* C31: a chunk is handled by the accumulator. A frame is handed to the socket
\* only when the queue with the chunk holds at least 100 ms (MIN_SAMPLES
\* samples); after a hand-off the queue is what followed the first
\* MIN_SAMPLES samples, without a hand-off it is the old queue followed by the
\* chunk, so the leftover stays at the front of the next accumulation; and
\* no sample is dropped: the old queue followed by the chunk is the first
\* MIN_SAMPLES samples of the frame handed off followed by the new queue
AccumulateAndHandOff ==
    [][captured' # captured =>
          LET chunk == [i \in 1..(captured' - captured) |-> captured + i]
              merged == queueRef \o chunk
          IN  /\ frames' # frames => Len(merged) >= MIN_SAMPLES
              /\ frames' # frames => queueRef' = SubSeq(merged, MIN_SAMPLES + 1, Len(merged))
              /\ frames' = frames => queueRef' = merged
              /\ frames' # frames =>
                    merged = SubSeq(frames'[Len(frames')], 1, MIN_SAMPLES) \o queueRef']_vars

\* a frame was handed off, and the samples that followed its first
\* MIN_SAMPLES are at the front of a queue that has grown since
AccumulateWitness ==
    /\ Len(frames) = 1
    /\ Len(queueRef) > RenderQuantum
    /\ queueRef[1] = frames[1][MIN_SAMPLES] + 1

\* C34: every frame handed to the socket is MIN_SAMPLES samples long, no
\* sample is in two frames, and the samples left in the queue after a
\* hand-off are not in a frame
FramesExactAndDisjoint ==
    /\ \A i \in 1..Len(frames) : Len(frames[i]) = MIN_SAMPLES
    /\ \A i, j \in 1..Len(frames) :
          i # j => SamplesOf(frames[i]) \cap SamplesOf(frames[j]) = {}
    /\ \A i \in 1..Len(frames) : SamplesOf(queueRef) \cap SamplesOf(frames[i]) = {}

\* the answers an endpoint gives when the scoring backend fails
TransportResponses(endpoint) ==
    {CatchResponse(err, Fallback(endpoint)) : err \in TransportErrors}

\* the text wrapped by Fenced, for a text that Fenced has produced
IsFenced(text) ==
    /\ Len(text) >= 5
    /\ SubSeq(text, 1, 3) = <<Fence, JsonWord, " ">>
    /\ SubSeq(text, Len(text) - 1, Len(text)) = <<" ", Fence>>

Unfenced(text) == SubSeq(text, 4, Len(text) - 2)

\* C32: on both endpoints the answer to an output of the scoring backend that
\* cannot be parsed is none of the answers given when the backend fails, and
\* a JSON payload inside a code fence is parsed to the value the bare payload
\* is parsed to, which is the value of the payload
ParseFailureIsDistinct ==
    /\ (server.pc = "done" /\ server.fault = "parse") =>
           server.response \notin TransportResponses(server.endpoint)
    /\ (server.raw # Absent /\ IsFenced(server.raw[1])
            /\ IsJsonText(Unfenced(server.raw[1]))) =>
           /\ extractJson(server.raw[1]) = extractJson(Unfenced(server.raw[1]))
           /\ server.parsed = Present(Unfenced(server.raw[1]))

\* C33: when a final-evaluation request is issued, the snapshot of its
\* transcript is in the storage, or the failure to store it is shown: the
\* error of the hook or the result shows an error
SnapshotFailureSurfaced ==
    [][\A f \in finalInflight' \ finalInflight :
          \/ pendingReport' # Absent /\ pendingReport'[1].transcript = f.transcript
          \/ error' \notin {NULL, error}
          \/ finalResult' = "error"]_vars

\* C35: the first Turn message of a connection is applied while the turns
\* list holds the turns of an earlier connection of the session (the map of
\* the turns is empty only after ws.onopen): every one of those turns is
\* still in the turns list and in the transcript afterwards
TurnsSurviveReconnect ==
    [][(turnsMap = EmptyMap /\ turnsMap' # EmptyMap) =>
          \A i \in 1..Len(turns) :
              /\ \E j \in 1..Len(turns') : turns'[j] = turns[i]
              /\ Includes(transcript', turns[i])]_vars

\* C36: the home screen offers the recovery (its banner is shown for
\* recoveryData) only while a snapshot is in the storage; in particular not
\* after the report of the recovered session has succeeded and the user is
\* back on the home screen, so that Generate report cannot be reached again
\* for that snapshot
OfferOnlyWhileSnapshotExists ==
    (~started /\ recoveryData # Absent) => pendingReport # Absent

\* C37: End Interview, Retry report or Generate report on a transcript that
\* is empty or blank issues no final-evaluation request, leaves the storage
\* as it is, shows an error result and does not enter the evaluating state
BlankTranscriptIssuesNothing ==
    [][((EndInterviewClick \/ RetryFinalClick \/ GenerateReportClick)
            /\ Trim(viewTranscript) = <<>>)
       => /\ finalInflight' = finalInflight
          /\ pendingReport' = pendingReport
          /\ finalResult' = "error"
          /\ ~evaluating']_vars

\* a live session whose only turn is a blank was ended while the snapshot of
\* an earlier session is stored: an error result, no request, and the
\* snapshot of the earlier session still stored
BlankTranscriptWitness ==
    /\ started /\ ~isRecoveryMode
    /\ transcript = TextBlank
    /\ finalResult = "error" /\ ~evaluating
    /\ finalInflight = {}
    /\ pendingReport # Absent /\ pendingReport[1].session # inst

\* C38: while a live session holds a transcript that is not blank and no
\* final evaluation was requested (none is running and no result is shown),
\* End Interview is offered
EndAvailableWithTranscript ==
    (/\ started /\ ~isRecoveryMode
     /\ Trim(transcript) # <<>>
     /\ ~evaluating /\ ~showFinal) => EndInterviewOffered

\* C39: a start attempt that fails after a source was acquired (the
\* microphone is denied after the tab was shared, or the audio processor
\* does not load) leaves no stream and no audio context live that was not
\* live before the attempt
PartialStartReleases ==
    [][\A src \in AudioSources :
          (StartFail("micDenied", "both") \/ StartFail("module", src)) =>
              (held' \cup leaked') \subseteq (held \cup leaked)]_vars
====
